---- MODULE Spec2Model ----
(***************************************************************************)
(* Model of the Shipi18n translation action (src/src/index.js): the        *)
(* flatten / diff / merge helpers as operators, and run() as a state       *)
(* machine whose steps are the awaited I/O operations of the run.          *)
(***************************************************************************)
EXTENDS Integers, Sequences, FiniteSets, TLC

(***************************************************************************)
(* JSON values.  Every value is a record of the same shape so that any two *)
(* values can be compared:                                                 *)
(*   type "obj"  : a mapping, obj is a function from keys to values        *)
(*   type "str"  : a plain string, str is its sequence of characters       *)
(*   type "json" : a string holding the JSON text of the value obj[1]      *)
(*   type "arr"  : an array of one-character strings (str lists them)      *)
(*   type "num", "bool", "null" : the other scalars                        *)
(* Keys and dot-paths are sequences of characters.                         *)
(***************************************************************************)
Obj(f) == [type |-> "obj", str |-> <<>>, obj |-> f]

Str(s) == [type |-> "str", str |-> s, obj |-> <<>>]

\* JSON.stringify(v): the string holding the JSON text of v
JSONstringify(v) == [type |-> "json", str |-> <<>>, obj |-> <<v>>]

\* JSON.parse(text) succeeds exactly on JSON text (plain strings of the
\* model are never valid JSON) and gives back the value
CanParse(text) == text.type = "json"

JSONparse(text) == text.obj[1]

Arr(s) == [type |-> "arr", str |-> s, obj |-> <<>>]

Num(d) == [type |-> "num", str |-> <<d>>, obj |-> <<>>]

Bool(b) == [type |-> "bool", str |-> <<b>>, obj |-> <<>>]

Null == [type |-> "null", str |-> <<>>, obj |-> <<>>]

EmptyObject == Obj(<<>>)

Dot == "."

Digits == <<"0", "1", "2", "3", "4", "5", "6", "7", "8", "9">>

\* typeof v === 'object' && v && !Array.isArray(v)
IsMapping(v) == v.type = "obj"

\* JavaScript truthiness of a value
Truthy(v) ==
  CASE v.type = "obj" -> TRUE
    [] v.type = "arr" -> TRUE
    [] v.type = "json" -> TRUE
    [] v.type = "str" -> v.str # <<>>
    [] v.type = "num" -> v.str # <<"0">>
    [] v.type = "bool" -> v.str = <<"t">>
    [] OTHER -> FALSE

\* typeof v
TypeOf(v) ==
  CASE v.type \in {"obj", "arr", "null"} -> "object"
    [] v.type \in {"str", "json"} -> "string"
    [] v.type = "num" -> "number"
    [] OTHER -> "boolean"

\* The own enumerable properties of a value, as Object.entries and the
\* spread { ...v } see them: a mapping's entries, the indexed characters
\* of a string or items of an array, nothing for the other scalars.
OwnProperties(v) ==
  CASE v.type = "obj" -> v.obj
    [] v.type \in {"str", "arr"} ->
         [k \in {<<Digits[i]>> : i \in 1..Len(v.str)} |->
            Str(<<v.str[CHOOSE i \in 1..Len(v.str) : <<Digits[i]>> = k]>>)]
    [] OTHER -> <<>>

\* The keys of a mapping in iteration order (one fixed order per key set).
ObjectKeys(f) ==
  LET n == Cardinality(DOMAIN f)
  IN IF n = 0 THEN <<>>
     ELSE CHOOSE s \in [1..n -> DOMAIN f] : \A i, j \in 1..n : i # j => s[i] # s[j]

\* result[key] = value
Put(f, key, value) ==
  [k \in DOMAIN f \cup {key} |-> IF k = key THEN value ELSE f[k]]

\* Object.assign(a, b)
ObjectAssign(a, b) ==
  [k \in DOMAIN a \cup DOMAIN b |-> IF k \in DOMAIN b THEN b[k] ELSE a[k]]

\* delete f[key]
Delete(f, key) == [k \in DOMAIN f \ {key} |-> f[k]]

RECURSIVE flattenFrom(_, _, _, _)
RECURSIVE flattenObject(_, _)
\* The loop of flattenObject over the entries keys[i..] of obj.
flattenFrom(obj, keys, prefix, result) ==
  IF keys = <<>> THEN result
  ELSE LET key == Head(keys)
           value == obj[key]
           newKey == IF prefix # <<>> THEN prefix \o <<Dot>> \o key ELSE key
       IN IF IsMapping(value)
          THEN flattenFrom(obj, Tail(keys), prefix,
                           ObjectAssign(result, flattenObject(value, newKey)))
          ELSE flattenFrom(obj, Tail(keys), prefix, Put(result, newKey, value))

\* flattenObject(obj, prefix): the flat map from dot-paths to leaves.
flattenObject(v, prefix) ==
  flattenFrom(OwnProperties(v), ObjectKeys(OwnProperties(v)), prefix, <<>>)

RECURSIVE Split(_)
\* key.split('.')
Split(key) ==
  IF \A i \in 1..Len(key) : key[i] # Dot THEN <<key>>
  ELSE LET d == CHOOSE i \in 1..Len(key) :
                  key[i] = Dot /\ \A j \in 1..(i - 1) : key[j] # Dot
       IN <<SubSeq(key, 1, d - 1)>> \o Split(SubSeq(key, d + 1, Len(key)))

RECURSIVE AssignPath(_, _, _)
\* The inner walk of unflattenObject: create the intermediate mappings
\* along keys and assign value at the last key.  Assigning a property on
\* a truthy scalar is a silent no-op.
AssignPath(current, keys, value) ==
  IF Len(keys) = 1 THEN Put(current, keys[1], value)
  ELSE LET k == keys[1]
           child == IF k \in DOMAIN current /\ Truthy(current[k])
                    THEN current[k] ELSE EmptyObject
       IN IF IsMapping(child)
          THEN Put(current, k, Obj(AssignPath(child.obj, Tail(keys), value)))
          ELSE current

RECURSIVE unflattenFrom(_, _, _)
unflattenFrom(flat, keys, result) ==
  IF keys = <<>> THEN result
  ELSE unflattenFrom(flat, Tail(keys),
                     AssignPath(result, Split(Head(keys)), flat[Head(keys)]))

\* unflattenObject(obj): the nested mapping of a flat map.
unflattenObject(flat) == Obj(unflattenFrom(flat, ObjectKeys(flat), <<>>))

\* A merge of the top level only: each value of source replaces the value
\* of target as a whole.
deepMergeShallow(target, source) ==
  Obj(ObjectAssign(OwnProperties(target), OwnProperties(source)))

RECURSIVE deepMerge(_, _)
\* deepMerge(target, source): source wins, mappings of source are merged
\* into (result[key] || {}).
deepMerge(target, source) ==
  LET t == OwnProperties(target)
      s == OwnProperties(source)
  IN Obj([k \in DOMAIN t \cup DOMAIN s |->
            IF k \in DOMAIN s
            THEN IF IsMapping(s[k])
                 THEN deepMerge(IF k \in DOMAIN t /\ Truthy(t[k])
                                THEN t[k] ELSE EmptyObject, s[k])
                 ELSE s[k]
            ELSE t[k]])

\* removeKeys deleting with each key the keys below it.
removeKeysBelow(target, keysToRemove) ==
  LET flatTarget == flattenObject(target, <<>>)
      below(k) == \E r \in keysToRemove :
                    Len(r) <= Len(k) /\ SubSeq(k, 1, Len(r)) = r
  IN unflattenObject([k \in {j \in DOMAIN flatTarget : ~below(j)} |-> flatTarget[k]])

\* removeKeys(target, keysToRemove)
removeKeys(target, keysToRemove) ==
  LET flatTarget == flattenObject(target, <<>>)
  IN unflattenObject([k \in DOMAIN flatTarget \ keysToRemove |-> flatTarget[k]])

\* detectChangedKeys comparing each new value with the whole old map, so
\* that every key present on both sides counts as modified.
detectChangedKeysAgainstMap(oldContent, newContent) ==
  LET oldFlat == IF Truthy(oldContent) THEN flattenObject(oldContent, <<>>) ELSE <<>>
      newFlat == flattenObject(newContent, <<>>)
  IN [added |-> {k \in DOMAIN newFlat : k \notin DOMAIN oldFlat},
      modified |-> {k \in DOMAIN newFlat : k \in DOMAIN oldFlat},
      deleted |-> {k \in DOMAIN oldFlat : k \notin DOMAIN newFlat}]

\* detectChangedKeys(oldContent, newContent); the key lists as sets.
detectChangedKeys(oldContent, newContent) ==
  LET oldFlat == IF Truthy(oldContent) THEN flattenObject(oldContent, <<>>) ELSE <<>>
      newFlat == flattenObject(newContent, <<>>)
  IN [added |-> {k \in DOMAIN newFlat : k \notin DOMAIN oldFlat},
      modified |-> {k \in DOMAIN newFlat :
                      k \in DOMAIN oldFlat /\ oldFlat[k] # newFlat[k]},
      deleted |-> {k \in DOMAIN oldFlat : k \notin DOMAIN newFlat}]

\* extractKeys(obj, keys)
\* extractKeys giving back the whole tree.
extractKeysWhole(obj, keys) == obj

\* extractKeys(obj, keys): the subset tree of the given dot-paths
extractKeys(obj, keys) ==
  LET flat == flattenObject(obj, <<>>)
  IN unflattenObject([k \in keys \cap DOMAIN flat |-> flat[k]])

\* "a, b".split(sep): the pieces of s between the separators.
RECURSIVE SplitOn(_, _)
SplitOn(s, sep) ==
  IF \A i \in 1..Len(s) : s[i] # sep THEN <<s>>
  ELSE LET d == CHOOSE i \in 1..Len(s) :
                  s[i] = sep /\ \A j \in 1..(i - 1) : s[j] # sep
       IN <<SubSeq(s, 1, d - 1)>> \o SplitOn(SubSeq(s, d + 1, Len(s)), sep)

RECURSIVE Trim(_)
\* k.trim()
Trim(s) ==
  IF s = <<>> THEN s
  ELSE IF Head(s) = " " THEN Trim(Tail(s))
  ELSE IF s[Len(s)] = " " THEN Trim(SubSeq(s, 1, Len(s) - 1))
  ELSE s

\* input ? input.split(',').map(k => k.trim()).filter(Boolean) : []
ParseSkipList(input) ==
  IF input = <<>> THEN <<>>
  ELSE LET parts == SplitOn(input, ",")
       IN SelectSeq([i \in 1..Len(parts) |-> Trim(parts[i])], LAMBDA k : k # <<>>)

(***************************************************************************)
(* Verification functions                                                  *)
(***************************************************************************)
IsDigit(c) == \E i \in 1..Len(Digits) : Digits[i] = c

\* The first index >= from at which test fails, or Len(str) + 1.
RunEnd(str, from, Test(_)) ==
  IF \E j \in from..Len(str) : ~Test(str[j])
  THEN CHOOSE j \in from..Len(str) :
         ~Test(str[j]) /\ \A m \in from..(j - 1) : Test(str[m])
  ELSE Len(str) + 1

NotCloseBrace(c) == c # "}"

At(str, i) == IF i \in 1..Len(str) THEN str[i] ELSE ""

\* Length of the match of the n-th placeholder pattern at position i of
\* str, or 0:  1: {{name}}  2: {name}  3: %s %d %@  4: %1$s
MatchLength(n, str, i) ==
  CASE n = 1 ->
         LET j == RunEnd(str, i + 2, NotCloseBrace)
         IN IF At(str, i) = "{" /\ At(str, i + 1) = "{" /\ j >= i + 3
               /\ At(str, j) = "}" /\ At(str, j + 1) = "}"
            THEN j + 2 - i ELSE 0
    [] n = 2 ->
         LET j == RunEnd(str, i + 1, NotCloseBrace)
         IN IF At(str, i) = "{" /\ j >= i + 2 /\ At(str, j) = "}"
            THEN j + 1 - i ELSE 0
    [] n = 3 ->
         IF At(str, i) = "%" /\ At(str, i + 1) \in {"s", "d", "@"} THEN 2 ELSE 0
    [] OTHER ->
         LET j == RunEnd(str, i + 1, IsDigit)
         IN IF At(str, i) = "%" /\ j >= i + 2 /\ At(str, j) = "$"
               /\ At(str, j + 1) \in {"s", "d"}
            THEN j + 2 - i ELSE 0

RECURSIVE Matches(_, _, _)
\* str.match(pattern) with the g flag: the leftmost non-overlapping matches.
Matches(n, str, i) ==
  IF i > Len(str) THEN {}
  ELSE LET len == MatchLength(n, str, i)
       IN IF len > 0
          THEN {SubSeq(str, i, i + len - 1)} \cup Matches(n, str, i + len)
          ELSE Matches(n, str, i + 1)

\* extractPlaceholders(str): the set of distinct placeholder tokens.
extractPlaceholders(v) ==
  IF v.type # "str" THEN {}
  ELSE UNION {Matches(n, v.str, 1) : n \in 1..4}

NoIssues == <<>>

Issue(type, severity, key, msg, keys) ==
  [type |-> type, severity |-> severity, key |-> key, msg |-> msg,
   keys |-> keys, lang |-> ""]

\* verifyPlaceholders looking for the missing placeholders only.
verifyPlaceholdersMissingOnly(sourceValue, translatedValue, key) ==
  LET sourcePlaceholders == extractPlaceholders(sourceValue)
      translatedPlaceholders == extractPlaceholders(translatedValue)
      missing == sourcePlaceholders \ translatedPlaceholders
  IN IF missing # {}
     THEN <<Issue("placeholder", "error", key, "Missing placeholders", missing)>>
     ELSE NoIssues

\* verifyPlaceholders(sourceValue, translatedValue, key): the issue or none.
verifyPlaceholders(sourceValue, translatedValue, key) ==
  LET sourcePlaceholders == extractPlaceholders(sourceValue)
      translatedPlaceholders == extractPlaceholders(translatedValue)
      missing == sourcePlaceholders \ translatedPlaceholders
      extra == translatedPlaceholders \ sourcePlaceholders
  IN IF missing # {} \/ extra # {}
     THEN <<Issue("placeholder", "error", key,
                  IF missing # {} THEN "Missing placeholders"
                  ELSE "Unexpected placeholders",
                  IF missing # {} THEN missing ELSE extra)>>
     ELSE NoIssues

\* verifyKeyConsistency(sourceKeys, translatedKeys, lang)
verifyKeyConsistency(sourceKeys, translatedKeys, lang) ==
  LET missing == sourceKeys \ translatedKeys
      extra == translatedKeys \ sourceKeys
  IN (IF missing # {}
      THEN <<[Issue("missing_keys", "warning", <<>>, "missing", missing)
                EXCEPT !.lang = lang]>>
      ELSE NoIssues)
     \o
     (IF extra # {}
      THEN <<[Issue("extra_keys", "warning", <<>>, "unexpected", extra)
                EXCEPT !.lang = lang]>>
      ELSE NoIssues)

\* verifyLengthSanity with the bounds of the ratio included.
verifyLengthSanityInclusive(sourceValue, translatedValue, key) ==
  IF sourceValue.type # "str" \/ translatedValue.type # "str" THEN NoIssues
  ELSE IF Len(sourceValue.str) < 5 THEN NoIssues
  ELSE IF Len(translatedValue.str) >= 5 * Len(sourceValue.str)
       THEN <<Issue("length", "warning", key, "longer", {})>>
  ELSE IF 5 * Len(translatedValue.str) <= Len(sourceValue.str)
       THEN <<Issue("length", "warning", key, "shorter", {})>>
  ELSE NoIssues

\* verifyLengthSanity(sourceValue, translatedValue, key)
verifyLengthSanity(sourceValue, translatedValue, key) ==
  IF sourceValue.type # "str" \/ translatedValue.type # "str" THEN NoIssues
  ELSE IF Len(sourceValue.str) < 5 THEN NoIssues
  ELSE IF Len(translatedValue.str) > 5 * Len(sourceValue.str)
       THEN <<Issue("length", "warning", key, "longer", {})>>
  ELSE IF 5 * Len(translatedValue.str) < Len(sourceValue.str)
       THEN <<Issue("length", "warning", key, "shorter", {})>>
  ELSE NoIssues

SetLang(issues, lang) == [i \in 1..Len(issues) |-> [issues[i] EXCEPT !.lang = lang]]

RECURSIVE PerKeyChecks(_, _, _, _)
\* The per-key loop of runVerification over the source keys.
PerKeyChecks(keys, sourceFlat, translatedFlat, lang) ==
  IF keys = <<>> THEN NoIssues
  ELSE LET key == Head(keys)
           rest == PerKeyChecks(Tail(keys), sourceFlat, translatedFlat, lang)
       IN IF key \notin DOMAIN translatedFlat THEN rest
          ELSE SetLang(verifyPlaceholders(sourceFlat[key], translatedFlat[key], key), lang)
               \o SetLang(verifyLengthSanity(sourceFlat[key], translatedFlat[key], key), lang)
               \o rest

\* runVerification(sourceContent, translatedContent, lang): the issues.
runVerification(sourceContent, translatedContent, lang) ==
  LET sourceFlat == flattenObject(sourceContent, <<>>)
      translatedFlat == flattenObject(translatedContent, <<>>)
  IN verifyKeyConsistency(DOMAIN sourceFlat, DOMAIN translatedFlat, lang)
     \o PerKeyChecks(ObjectKeys(sourceFlat), sourceFlat, translatedFlat, lang)

(***************************************************************************)
(* Paths.  A path is its directory segments, the file's stem and its        *)
(* extension; every extension of the model is lower case already.           *)
(***************************************************************************)
Path(dir, name, ext) == [dir |-> dir, name |-> name, ext |-> ext]

NoPath == Path(<<>>, "", "")

\* path.basename(p)
basename(p) == p.name \o p.ext

\* path.dirname of a directory given by its segments
dirname(dir) == SubSeq(dir, 1, Len(dir) - 1)

\* p.split(path.sep)
PathParts(p) == p.dir \o <<basename(p)>>

\* /^[a-z]{2}(-[A-Z]{2})?$/.test(part), on the path segments of the model
IsLangCode(part) == part \in {"en", "es", "fr", "de"}

\* pathParts.find(p => /^[a-z]{2}(-[A-Z]{2})?$/.test(p)) || 'unknown'
LangOfPath(p) ==
  LET parts == PathParts(p)
  IN IF \E i \in 1..Len(parts) : IsLangCode(parts[i])
     THEN parts[CHOOSE i \in 1..Len(parts) :
                  IsLangCode(parts[i]) /\ \A j \in 1..(i - 1) : ~IsLangCode(parts[j])]
     ELSE "unknown"

Range(seq) == {seq[i] : i \in 1..Len(seq)}

SupportedExtensions == {".json", ".yaml", ".yml"}

\* The metadata names callTranslateAPI strips from a response
MetadataFields ==
  {"warnings", "savedKeys", "keysSavedCount", "namespaces", "namespaceFiles",
   "namespaceFileNames", "skipped"}

CountKey == <<"c", "o", "u", "n", "t">>

\* skippedInfo.count of a response: result.skipped || { count: 0, keys: [] }
SkippedCount(response) ==
  IF "skipped" \in DOMAIN response /\ Truthy(response["skipped"])
     /\ CountKey \in DOMAIN OwnProperties(response["skipped"])
  THEN LET d == response["skipped"].obj[CountKey].str[1]
       IN (CHOOSE i \in 1..Len(Digits) : Digits[i] = d) - 1
  ELSE 0

(***************************************************************************)
(* The inputs of the model: strings, trees and the answers of the remote.   *)
(***************************************************************************)
MaxFiles == 2

hi == <<"H", "i", " ", "{", "n", "}">>

bye == <<"B", "y", "e">>

kg == <<"g">>

km == <<"m">>

kt == <<"t">>

ku == <<"u">>

TreeA == Obj(kg :> Str(hi))

TreeB == Obj((kg :> Str(hi)) @@ (km :> Obj(kt :> Str(bye))))

TreeC == Obj((kg :> Str(hi)) @@ (km :> Obj((kt :> Str(bye)) @@ (ku :> Str(bye)))))

TreeD == Obj((kg :> Str(bye)) @@ (km :> Obj(kt :> Str(bye))))

TreeE == Obj((kg :> Str(bye)) @@ (km :> Obj((kt :> Str(bye)) @@ (ku :> Str(bye)))))

\* TreeB with the mapping m as a leaf
TreeF == Obj((kg :> Str(hi)) @@ (km :> Str(bye)))

\* TreeB with the leaf g as a mapping
TreeG == Obj((kg :> Obj(kt :> Str(hi))) @@ (km :> Obj(kt :> Str(bye))))

GarbageText == Str(<<"#">>)

YamlText == Str(<<"g", ":", " ", "x">>)

NoText == [type |-> "none", str |-> <<>>, obj |-> <<>>]

RECURSIVE Translated(_)
\* A faithful answer of the remote: every string leaf translated, the
\* placeholders kept, the shape unchanged.
Translated(v) ==
  CASE v.type = "obj" -> Obj([k \in DOMAIN v.obj |-> Translated(v.obj[k])])
    [] v.type = "str" -> Str(<<"~">> \o v.str)
    [] OTHER -> v

RECURSIVE Damaged(_)
\* An answer of the remote that lost the placeholders and most of the text.
Damaged(v) ==
  CASE v.type = "obj" -> Obj([k \in DOMAIN v.obj |-> Damaged(v.obj[k])])
    [] v.type = "str" -> Str(<<"~">>)
    [] OTHER -> v

\* The bodies a successful translation response can have for a request.
Responses(content, langs) ==
  LET L == Range(langs)
      good == [l \in L |-> Translated(content)]
      asText == [l \in L |-> IF IsMapping(content)
                             THEN JSONstringify(Translated(content))
                             ELSE Translated(content)]
      bad == [l \in L |-> Damaged(content)]
      annotated == [k \in L \cup {"warnings", "skipped"} |->
                      IF k \in L THEN Translated(content)
                      ELSE IF k = "warnings" THEN Arr(<<>>)
                      ELSE Obj(CountKey :> Num("1"))]
      garbage == [l \in L \cup {"de"} |-> GarbageText]
      empty == [k \in {"warnings"} |-> Arr(<<>>)]
  IN {good, asText, bad, annotated, garbage, empty}

\* The contents a successful self-correcting response can have.
SelfCorrectContents(content) == {Translated(content), Damaged(content)}

\* The issue list of a failed LLM verification result
LlmResultIssues == <<kg>>

(***************************************************************************)
(* State.  cfg, git, dirEntries and fs0 are the inputs of the run and never *)
(* change; fs is the working tree; the others are the variables of run()    *)
(* and the record of what the run did.                                      *)
(***************************************************************************)
VARIABLES
  cfg,                   \* the action inputs read by core.getInput
  fs,                    \* path -> text of the files of the working tree
  fs0,                   \* fs when the run started (the committed tree)
  git,                   \* source path -> text of its HEAD~1 revision
  dirEntries,            \* the entries of the source directory
  pc,                    \* where run() is
  failure,               \* the message of core.setFailed, "" if none
  sourceFiles,
  useLanguageFolders,
  idx,                   \* index of the source file being processed
  call,                  \* the frame of translateFile waiting on the remote
  result,                \* what translateFile returned for the file
  allFilesChanged,
  sourceContents,
  allVerificationIssues,
  vidx,                  \* index in allFilesChanged of the verification loops
  llmIssues,
  totals,                \* totalKeysTranslated, totalKeysDeleted, totalSkippedKeys
  requests,              \* the HTTP requests issued, in order
  merges,                \* one record per target file write, in order
  verified,              \* one record per runVerification call, in order
  reported,              \* the issue list handed to formatVerificationSummary
  gitLog,                \* the git and pull-request operations done
  unanswered,            \* the remote APIs of which a call failed
  pure                   \* the last application of a helper: name, arguments, value

vars ==
  <<cfg, fs, fs0, git, dirEntries, pc, failure, sourceFiles, useLanguageFolders,
    idx, call, result, allFilesChanged, sourceContents, allVerificationIssues,
    vidx, llmIssues, totals, requests, merges, verified, reported, gitLog,
    unanswered, pure>>

\* No helper applied yet
NoApplication == [op |-> "", args |-> <<>>, value |-> Null, applied |-> FALSE]

\* What no step of run() changes
inputs == <<cfg, fs0, git, dirEntries, pure>>

NoCall ==
  [file |-> NoPath, contentToTranslate |-> Null, outputFormat |-> "",
   incremental |-> FALSE, deletedKeys |-> {}, changedKeyCount |-> 0,
   keyCount |-> 0, translations |-> <<>>, lang |-> 1]

NoResult ==
  [translations |-> <<>>, deletedKeys |-> {}, isIncremental |-> FALSE,
   changedKeyCount |-> 0, skippedCount |-> 0]

SourceDir == <<"locales", "en">>

SingleFileJson == Path(<<"locales">>, "en", ".json")

SingleFileYaml == Path(<<"locales">>, "en", ".yaml")

DirFile(i) == Path(SourceDir, "f" \o ToString(i), ".json")

\* The entries of a source directory holding n locale files, a text file
\* and a subdirectory.
Entries(n) ==
  [i \in 1..n |-> [name |-> "f" \o ToString(i), ext |-> ".json", isFile |-> TRUE]]
  \o <<[name |-> "notes", ext |-> ".txt", isFile |-> TRUE],
       [name |-> "old", ext |-> ".json", isFile |-> FALSE]>>

\* skip-keys / skip-paths inputs
SkipKeysInputs == {<<>>, <<" ", "g", ",", ",", "m", ".", "t", " ">>}

SkipPathsInput(skipKeysInput) == IF skipKeysInput = <<>> THEN <<>> ELSE <<"m", ".", "*">>

Config(file, dir, langs, incremental, selfCorrect, createPR, verify, skip) ==
  [sourceFile |-> file, sourceDir |-> dir, outputDir |-> <<>>,
   targetLanguages |-> langs, incremental |-> incremental,
   selfCorrect |-> selfCorrect, createPR |-> createPR, verify |-> verify,
   skipKeysInput |-> skip, skipPathsInput |-> SkipPathsInput(skip)]

\* The worlds of one source file of a directory: its current text, its
\* prior revision and the text of its existing target file.
DirWorlds ==
  {[cur |-> JSONstringify(TreeB), prev |-> w[1], existing |-> w[2]] :
     w \in {<<NoText, NoText>>,
            <<JSONstringify(TreeB), JSONstringify(Translated(TreeB))>>,
            <<JSONstringify(TreeA), JSONstringify(Translated(TreeA))>>}}

\* The flags of a directory run: incremental, create-pr, verify.
DirFlags ==
  {<<TRUE, FALSE, FALSE>>, <<TRUE, TRUE, FALSE>>, <<TRUE, FALSE, TRUE>>,
   <<FALSE, FALSE, FALSE>>}

\* The worlds of the source file of a single-file run.
SingleWorlds ==
  [cur : {JSONstringify(TreeB)},
   prev : {NoText, GarbageText, JSONstringify(TreeA), JSONstringify(TreeB),
           JSONstringify(TreeC), JSONstringify(TreeD), JSONstringify(TreeE)},
   existing : {NoText, GarbageText, JSONstringify(Translated(TreeA)),
               JSONstringify(Translated(TreeE))}]
  \cup
  {[cur |-> JSONstringify(TreeB), prev |-> JSONstringify(t),
    existing |-> JSONstringify(Translated(t))] : t \in {TreeF, TreeG}}
  \cup
  [cur : {YamlText}, prev : {NoText, YamlText}, existing : {NoText, YamlText}]
  \cup
  [cur : {GarbageText, NoText}, prev : {NoText}, existing : {NoText}]

\* The working tree of a run: each source file with its current text and
\* each of its target files that exists with its text.
Tree(files, world, targets) ==
  LET S == {f \in files : world[f].cur # NoText}
      T == {f \in files : world[f].existing # NoText}
      P == S \cup UNION {targets[f] : f \in T}
  IN [p \in P |-> IF p \in S THEN world[p].cur
                  ELSE world[CHOOSE f \in T : p \in targets[f]].existing]

History(files, world) ==
  LET H == {f \in files : world[f].prev # NoText}
  IN [f \in H |-> world[f].prev]

InitRun ==
  /\ pc = "start"
  /\ failure = ""
  /\ sourceFiles = <<>>
  /\ useLanguageFolders = FALSE
  /\ idx = 1
  /\ call = NoCall
  /\ result = NoResult
  /\ allFilesChanged = <<>>
  /\ sourceContents = <<>>
  /\ allVerificationIssues = <<>>
  /\ vidx = 1
  /\ llmIssues = <<>>
  /\ totals = [translated |-> 0, deleted |-> 0, skipped |-> 0]
  /\ requests = <<>>
  /\ merges = <<>>
  /\ verified = <<>>
  /\ reported = <<>>
  /\ gitLog = <<>>
  /\ unanswered = {}
  /\ fs0 = fs

\* A run on a source directory of 0..MaxFiles locale files, one language.
InitDir ==
  \E n \in 0..MaxFiles :
    \E world \in [{DirFile(i) : i \in 1..n} -> DirWorlds] :
      \E flags \in DirFlags :
        LET files == {DirFile(i) : i \in 1..n}
            targets == [f \in files |-> {Path(<<"locales", "es">>, f.name, f.ext)}]
        IN /\ cfg = Config(NoPath, SourceDir, <<"es">>, flags[1], FALSE,
                           flags[2], flags[3], <<>>)
           /\ dirEntries = Entries(n)
           /\ fs = Tree(files, world, targets)
           /\ git = History(files, world)

\* A run on one source file, two languages.
InitSingle ==
  \E w \in SingleWorlds :
    \E incremental, selfCorrect, createPR \in BOOLEAN :
      \E skip \in SkipKeysInputs :
        LET file == IF w.cur = YamlText THEN SingleFileYaml ELSE SingleFileJson
            world == [f \in {file} |-> w]
            targets == [f \in {file} |-> {Path(<<"locales">>, "es", f.ext)}]
        IN /\ cfg = Config(file, <<>>, <<"es", "fr">>, incremental, selfCorrect,
                           createPR, FALSE, skip)
           /\ dirEntries = <<>>
           /\ fs = Tree({file}, world, targets)
           /\ git = History({file}, world)

\* A run given neither input, or both.
InitInvalid ==
  /\ \E both \in BOOLEAN :
       cfg = Config(IF both THEN SingleFileJson ELSE NoPath,
                    IF both THEN SourceDir ELSE <<>>,
                    <<"es">>, TRUE, FALSE, FALSE, FALSE, <<>>)
  /\ dirEntries = Entries(1)
  /\ fs = (SingleFileJson :> JSONstringify(TreeB))
  /\ git = <<>>

Init == (InitDir \/ InitSingle \/ InitInvalid) /\ InitRun /\ pure = NoApplication

(***************************************************************************)
(* run(), one action per awaited operation.                                 *)
(***************************************************************************)
skipKeys == ParseSkipList(cfg.skipKeysInput)

skipPaths == ParseSkipList(cfg.skipPathsInput)

\* An error that is recorded while the run goes on to its report.
FailAndGoOn(message) ==
  /\ pc' = "report"
  /\ failure' = message

\* catch (error) { core.setFailed(...) }
Fail(message) ==
  /\ pc' = "failed"
  /\ failure' = message

\* discoverFiles taking every entry of a supported extension, directories
\* included.
discoverFilesAnyEntry(sourceDir) ==
  LET supported == SelectSeq(dirEntries, LAMBDA e : e.ext \in SupportedExtensions)
  IN [i \in 1..Len(supported) |-> Path(sourceDir, supported[i].name, supported[i].ext)]

\* discoverFiles(sourceDir): the supported files directly inside it.
discoverFiles(sourceDir) ==
  LET supported == SelectSeq(dirEntries,
                     LAMBDA e : e.isFile /\ e.ext \in SupportedExtensions)
  IN [i \in 1..Len(supported) |-> Path(sourceDir, supported[i].name, supported[i].ext)]

\* run, up to the loop over the source files: validate the inputs and
\* determine the files to translate.
Discover ==
  /\ pc = "start"
  /\ IF cfg.sourceFile = NoPath /\ cfg.sourceDir = <<>>
     THEN Fail("Either source-file or source-dir must be specified")
          /\ UNCHANGED <<sourceFiles, useLanguageFolders>>
     ELSE IF cfg.sourceFile # NoPath /\ cfg.sourceDir # <<>>
     THEN Fail("Specify either source-file or source-dir, not both")
          /\ UNCHANGED <<sourceFiles, useLanguageFolders>>
     ELSE IF cfg.sourceDir # <<>>
     THEN IF discoverFiles(cfg.sourceDir) = <<>>
          THEN Fail("No translatable files found")
               /\ UNCHANGED <<sourceFiles, useLanguageFolders>>
          ELSE /\ sourceFiles' = discoverFiles(cfg.sourceDir)
               /\ useLanguageFolders' = TRUE
               /\ pc' = "file"
               /\ UNCHANGED failure
     ELSE /\ sourceFiles' = <<cfg.sourceFile>>
          /\ useLanguageFolders' = FALSE
          /\ pc' = "file"
          /\ UNCHANGED failure
  /\ UNCHANGED <<inputs, unanswered, fs, idx, call, result, allFilesChanged, sourceContents,
                 allVerificationIssues, vidx, llmIssues, totals, requests,
                 merges, verified, reported, gitLog>>

\* getPreviousFileContent(filePath): output || null
getPreviousFileContent(filePath) ==
  IF filePath \in DOMAIN git /\ Truthy(git[filePath]) THEN git[filePath] ELSE Null

\* translateFile without the early returns: an empty set of keys to
\* translate is sent like any other.
translateFileWithoutEarlyReturn(sourceFile, incremental) ==
  LET sourceContent == fs[sourceFile]
      outputFormat == IF sourceFile.ext \in {".yaml", ".yml"} THEN "yaml" ELSE "json"
      parsedContent == IF outputFormat = "json" THEN JSONparse(sourceContent)
                       ELSE sourceContent
      previousContent == getPreviousFileContent(sourceFile)
      diffed == incremental /\ outputFormat = "json" /\ Truthy(previousContent)
                /\ CanParse(previousContent)
      changes == detectChangedKeys(JSONparse(previousContent), parsedContent)
      keysToTranslate == changes.added \cup changes.modified
      frame(content, inc, deleted, changed) ==
        [kind |-> "call", file |-> sourceFile, contentToTranslate |-> content,
         outputFormat |-> outputFormat, incremental |-> inc,
         deletedKeys |-> deleted, changedKeyCount |-> changed,
         keyCount |-> Cardinality(DOMAIN flattenObject(content, <<>>)),
         translations |-> <<>>, lang |-> 1]
  IN IF outputFormat = "json" /\ ~CanParse(sourceContent)
     THEN [frame(Null, FALSE, {}, 0) EXCEPT !.kind = "throw"]
     ELSE IF ~diffed
     THEN frame(parsedContent, FALSE, {}, 0)
     ELSE frame(extractKeys(parsedContent, keysToTranslate), TRUE,
                changes.deleted, Cardinality(keysToTranslate))

\* translateFile without the try around the parse of the previous
\* revision: a previous revision that does not parse is thrown.
translateFileWithoutFallback(sourceFile, incremental) ==
  LET sourceContent == fs[sourceFile]
      outputFormat == IF sourceFile.ext \in {".yaml", ".yml"} THEN "yaml" ELSE "json"
      parsedContent == IF outputFormat = "json" THEN JSONparse(sourceContent)
                       ELSE sourceContent
      previousContent == getPreviousFileContent(sourceFile)
      diffed == incremental /\ outputFormat = "json" /\ Truthy(previousContent)
                /\ CanParse(previousContent)
      changes == detectChangedKeys(JSONparse(previousContent), parsedContent)
      keysToTranslate == changes.added \cup changes.modified
      frame(content, inc, deleted, changed) ==
        [kind |-> "call", file |-> sourceFile, contentToTranslate |-> content,
         outputFormat |-> outputFormat, incremental |-> inc,
         deletedKeys |-> deleted, changedKeyCount |-> changed,
         keyCount |-> Cardinality(DOMAIN flattenObject(content, <<>>)),
         translations |-> <<>>, lang |-> 1]
  IN IF outputFormat = "json" /\ ~CanParse(sourceContent)
     THEN [frame(Null, FALSE, {}, 0) EXCEPT !.kind = "throw"]
     ELSE IF incremental /\ outputFormat = "json" /\ Truthy(previousContent)
             /\ ~CanParse(previousContent)
     THEN [frame(Null, FALSE, {}, 0) EXCEPT !.kind = "throw"]
     ELSE IF ~diffed
     THEN frame(parsedContent, FALSE, {}, 0)
     ELSE IF keysToTranslate = {}
     THEN [frame(Null, TRUE, changes.deleted, 0) EXCEPT !.kind = "return"]
     ELSE frame(extractKeys(parsedContent, keysToTranslate), TRUE,
                changes.deleted, Cardinality(keysToTranslate))

\* translateFile up to its first remote call: either it throws, or it
\* returns without a call, or it has the content to send.
translateFile(sourceFile, incremental) ==
  LET sourceContent == fs[sourceFile]
      outputFormat == IF sourceFile.ext \in {".yaml", ".yml"} THEN "yaml" ELSE "json"
      parsedContent == IF outputFormat = "json" THEN JSONparse(sourceContent)
                       ELSE sourceContent
      previousContent == getPreviousFileContent(sourceFile)
      diffed == incremental /\ outputFormat = "json" /\ Truthy(previousContent)
                /\ CanParse(previousContent)
      changes == detectChangedKeys(JSONparse(previousContent), parsedContent)
      keysToTranslate == changes.added \cup changes.modified
      frame(content, inc, deleted, changed) ==
        [kind |-> "call", file |-> sourceFile, contentToTranslate |-> content,
         outputFormat |-> outputFormat, incremental |-> inc,
         deletedKeys |-> deleted, changedKeyCount |-> changed,
         keyCount |-> Cardinality(DOMAIN flattenObject(content, <<>>)),
         translations |-> <<>>, lang |-> 1]
  IN IF outputFormat = "json" /\ ~CanParse(sourceContent)
     THEN [frame(Null, FALSE, {}, 0) EXCEPT !.kind = "throw"]
     ELSE IF ~diffed
     THEN frame(parsedContent, FALSE, {}, 0)
     ELSE IF keysToTranslate = {}
     THEN [frame(Null, TRUE, changes.deleted, 0) EXCEPT !.kind = "return"]
     ELSE frame(extractKeys(parsedContent, keysToTranslate), TRUE,
                changes.deleted, Cardinality(keysToTranslate))

\* The loop over the source files stopping one file short.
NextFileStoppingShort(i, filesChanged) ==
  IF i < Len(sourceFiles) THEN "file"
  ELSE IF Len(filesChanged) > 0 THEN "verify"
  ELSE "report"

\* Where run() goes after the i-1 first source files: the next file, the
\* verification loop if files were written, the report otherwise.
NextFile(i, filesChanged) ==
  IF i <= Len(sourceFiles) THEN "file"
  ELSE IF Len(filesChanged) > 0 THEN "verify"
  ELSE "report"

\* run, from the value translateFile returned to the choice of the write:
\* the counters, the skip of an unchanged file, and which write follows.
AfterTranslateFile(r) ==
  /\ result' = r
  /\ IF r.isIncremental /\ r.changedKeyCount = 0 /\ r.deletedKeys = {}
     THEN /\ totals' = [totals EXCEPT !.skipped = @ + r.skippedCount]
          /\ idx' = idx + 1
          /\ pc' = NextFile(idx + 1, allFilesChanged)
     ELSE /\ totals' = [translated |-> totals.translated + r.changedKeyCount,
                        deleted |-> totals.deleted + Cardinality(r.deletedKeys),
                        skipped |-> totals.skipped + r.skippedCount]
          /\ IF DOMAIN r.translations # {}
             THEN pc' = "write" /\ UNCHANGED idx
             ELSE IF r.deletedKeys # {}
             THEN pc' = "prune" /\ UNCHANGED idx
             ELSE idx' = idx + 1 /\ pc' = NextFile(idx + 1, allFilesChanged)

\* run, one iteration of the loop over the source files up to the remote
\* call of translateFile: read the source, keep its tree for verification,
\* detect the changes.
BeginFile ==
  /\ pc = "file"
  /\ idx <= Len(sourceFiles)
  /\ LET file == sourceFiles[idx]
     IN IF file \notin DOMAIN fs
        THEN /\ Fail("ENOENT")
             /\ UNCHANGED <<sourceContents, call, result, totals, idx>>
        ELSE LET tf == translateFile(file, cfg.incremental)
             IN /\ sourceContents' =
                     IF file.ext = ".json" /\ CanParse(fs[file])
                     THEN Put(sourceContents, file, JSONparse(fs[file]))
                     ELSE sourceContents
                /\ CASE tf.kind = "throw" ->
                          /\ Fail("Failed to parse")
                          /\ UNCHANGED <<call, result, totals, idx>>
                     [] tf.kind = "return" ->
                          /\ AfterTranslateFile(
                               [translations |-> <<>>, deletedKeys |-> tf.deletedKeys,
                                isIncremental |-> TRUE, changedKeyCount |-> 0,
                                skippedCount |-> 0])
                          /\ UNCHANGED <<call, failure>>
                     [] OTHER ->
                          /\ call' = [k \in DOMAIN NoCall |-> tf[k]]
                          /\ pc' = "translate"
                          /\ UNCHANGED <<result, totals, idx, failure>>
  /\ UNCHANGED <<inputs, unanswered, fs, sourceFiles, useLanguageFolders, allFilesChanged,
                 allVerificationIssues, vidx, llmIssues, requests, merges,
                 verified, reported, gitLog>>

\* A request whose content was filtered locally by the skip keys.
RequestFilteredLocally(api, file, lang, content, carriesSkip) ==
  [api |-> api, file |-> file, lang |-> lang,
   content |-> IF skipKeys # <<>> /\ content.type = "obj"
               THEN removeKeys(content, Range(skipKeys)) ELSE content,
   targetLanguages |-> IF api = "translate" THEN cfg.targetLanguages ELSE <<>>,
   carriesSkip |-> carriesSkip,
   skipKeys |-> IF carriesSkip THEN skipKeys ELSE <<>>,
   skipPaths |-> IF carriesSkip THEN skipPaths ELSE <<>>]

\* A request for the first target language only.
RequestFirstLanguage(api, file, lang, content, carriesSkip) ==
  [api |-> api, file |-> file, lang |-> lang, content |-> content,
   targetLanguages |-> IF api = "translate" THEN <<Head(cfg.targetLanguages)>> ELSE <<>>,
   carriesSkip |-> carriesSkip,
   skipKeys |-> IF carriesSkip THEN skipKeys ELSE <<>>,
   skipPaths |-> IF carriesSkip THEN skipPaths ELSE <<>>]

\* The body of a request to the remote service.  carriesSkip tells whether
\* the body has the skipKeys and skipPaths fields.
Request(api, file, lang, content, carriesSkip) ==
  [api |-> api, file |-> file, lang |-> lang, content |-> content,
   targetLanguages |-> IF api = "translate" THEN cfg.targetLanguages ELSE <<>>,
   carriesSkip |-> carriesSkip,
   skipKeys |-> IF carriesSkip THEN skipKeys ELSE <<>>,
   skipPaths |-> IF carriesSkip THEN skipPaths ELSE <<>>]

\* The translations of a response body: its entries without the metadata.
\* The translation map with only the warnings and the skipped info taken out.
TranslationsOfKeepingSavedKeys(response) ==
  [k \in DOMAIN response \ {"warnings", "skipped"} |-> response[k]]

\* const translations: the entries of the response that are not metadata
TranslationsOf(response) ==
  [k \in DOMAIN response \ MetadataFields |-> response[k]]

NoSkippedInfo == Obj((CountKey :> Num("0")) @@ (<<"k", "e", "y", "s">> :> Arr(<<>>)))

\* const skippedInfo = result.skipped || { count: 0, keys: [] }
SkippedInfo(response) ==
  IF "skipped" \in DOMAIN response /\ Truthy(response["skipped"])
  THEN response["skipped"]
  ELSE NoSkippedInfo

\* What callTranslateAPI returns for the body of a successful response
callTranslateAPIReturn(response) ==
  [translations |-> TranslationsOf(response), skippedInfo |-> SkippedInfo(response)]

\* translateFile's return value after its remote calls
Returned(translations, skippedCount) ==
  [translations |-> translations, deletedKeys |-> call.deletedKeys,
   isIncremental |-> call.incremental,
   changedKeyCount |-> IF call.incremental THEN call.changedKeyCount
                       ELSE call.keyCount,
   skippedCount |-> skippedCount]

standard == ~(cfg.selfCorrect /\ call.outputFormat = "json")

\* callTranslateAPI succeeds: the standard translation of the file.
callTranslateAPI ==
  /\ pc = "translate"
  /\ standard
  /\ requests' = Append(requests, Request("translate", call.file, "",
                                          call.contentToTranslate, TRUE))
  /\ \E response \in Responses(call.contentToTranslate, cfg.targetLanguages) :
       AfterTranslateFile(Returned(TranslationsOf(response), SkippedCount(response)))
  /\ call' = NoCall
  /\ UNCHANGED <<inputs, unanswered, fs, failure, sourceFiles, useLanguageFolders,
                 allFilesChanged, sourceContents, allVerificationIssues, vidx,
                 llmIssues, merges, verified, reported, gitLog>>

\* callTranslateAPI fails: network error or non-success response.
callTranslateAPIFails ==
  /\ pc = "translate"
  /\ standard
  /\ requests' = Append(requests, Request("translate", call.file, "",
                                          call.contentToTranslate, TRUE))
  /\ unanswered' = unanswered \cup {"translate"}
  /\ Fail("Translation API error")
  /\ UNCHANGED <<inputs, fs, sourceFiles, useLanguageFolders, idx, call, result,
                 allFilesChanged, sourceContents, allVerificationIssues, vidx,
                 llmIssues, totals, merges, verified, reported, gitLog>>

\* callSelfCorrectingAPI succeeds for the next target language; after the
\* last language translateFile returns.
callSelfCorrectingAPI ==
  /\ pc = "translate"
  /\ ~standard
  /\ LET targetLang == cfg.targetLanguages[call.lang]
     IN /\ requests' = Append(requests, Request("self-correct", call.file, targetLang,
                                                call.contentToTranslate, FALSE))
        /\ \E content \in SelfCorrectContents(call.contentToTranslate) :
             LET translations == Put(call.translations, targetLang, content)
             IN IF call.lang < Len(cfg.targetLanguages)
                THEN /\ call' = [call EXCEPT !.translations = translations,
                                             !.lang = @ + 1]
                     /\ UNCHANGED <<pc, result, totals, idx>>
                ELSE /\ AfterTranslateFile(Returned(translations, 0))
                     /\ call' = NoCall
  /\ UNCHANGED <<inputs, unanswered, fs, failure, sourceFiles, useLanguageFolders,
                 allFilesChanged, sourceContents, allVerificationIssues, vidx,
                 llmIssues, merges, verified, reported, gitLog>>

callSelfCorrectingAPIFails ==
  /\ pc = "translate"
  /\ ~standard
  /\ requests' = Append(requests, Request("self-correct", call.file,
                                          cfg.targetLanguages[call.lang],
                                          call.contentToTranslate, FALSE))
  /\ unanswered' = unanswered \cup {"self-correct"}
  /\ Fail("Self-correcting API error")
  /\ UNCHANGED <<inputs, fs, sourceFiles, useLanguageFolders, idx, call, result,
                 allFilesChanged, sourceContents, allVerificationIssues, vidx,
                 llmIssues, totals, merges, verified, reported, gitLog>>

\* outputDir || (sourceDir ? path.dirname(sourceDir) : path.dirname(file))
effectiveOutputDir(file) ==
  IF cfg.outputDir # <<>> THEN cfg.outputDir
  ELSE IF cfg.sourceDir # <<>> THEN dirname(cfg.sourceDir)
  ELSE file.dir

\* The output file of a language: {outputDir}/{lang}/{filename} with
\* language folders, {outputDir}/{lang}{ext} without.
OutputFile(outputDir, sourceFile, lang) ==
  IF useLanguageFolders
  THEN Path(outputDir \o <<lang>>, sourceFile.name, sourceFile.ext)
  ELSE Path(outputDir, lang, sourceFile.ext)

\* The merge of writeTranslatedFiles writing an empty tree when the existing
\* file is missing or invalid.
FinalContentEmptyWhenUnreadable(newContent, outputFile, deletedKeys, isIncremental) ==
  IF isIncremental /\ TypeOf(newContent) = "object"
  THEN IF outputFile \in DOMAIN fs /\ CanParse(fs[outputFile])
       THEN LET merged == deepMerge(JSONparse(fs[outputFile]), newContent)
            IN IF deletedKeys # {} THEN removeKeys(merged, deletedKeys) ELSE merged
       ELSE EmptyObject
  ELSE newContent

\* The merge of writeTranslatedFiles for one language: in incremental mode
\* an object is merged into the existing file and the deleted keys are
\* removed; anything else, or a missing or invalid file, is used as is.
FinalContent(newContent, outputFile, deletedKeys, isIncremental) ==
  IF isIncremental /\ TypeOf(newContent) = "object"
     /\ outputFile \in DOMAIN fs /\ CanParse(fs[outputFile])
  THEN LET merged == deepMerge(JSONparse(fs[outputFile]), newContent)
       IN IF deletedKeys # {} THEN removeKeys(merged, deletedKeys) ELSE merged
  ELSE newContent

\* The text written for a content: a string as is, anything else as JSON.
OutputContent(finalContent) ==
  IF TypeOf(finalContent) = "string" THEN finalContent
  ELSE JSONstringify(finalContent)

ExistingText(p) == IF p \in DOMAIN fs THEN fs[p] ELSE NoText

\* writeTranslatedFiles(result.translations, ...): one file written per
\* entry of the translations, then the next source file.
writeTranslatedFiles ==
  /\ pc = "write"
  /\ LET file == sourceFiles[idx]
         langs == ObjectKeys(result.translations)
         out(lang) == OutputFile(effectiveOutputDir(file), file, lang)
         text(lang) == OutputContent(FinalContent(result.translations[lang], out(lang),
                                                  result.deletedKeys, result.isIncremental))
         filesChanged == [i \in 1..Len(langs) |-> out(langs[i])]
     IN /\ fs' = [p \in DOMAIN fs \cup Range(filesChanged) |->
                    IF p \in Range(filesChanged)
                    THEN text(CHOOSE l \in Range(langs) : out(l) = p)
                    ELSE fs[p]]
        /\ merges' = merges \o
             [i \in 1..Len(langs) |->
                [source |-> file, lang |-> langs[i], outputFile |-> out(langs[i]),
                 existing |-> ExistingText(out(langs[i])),
                 incoming |-> result.translations[langs[i]],
                 deletedKeys |-> result.deletedKeys,
                 isIncremental |-> result.isIncremental,
                 written |-> text(langs[i])]]
        /\ allFilesChanged' = allFilesChanged \o filesChanged
        /\ idx' = idx + 1
        /\ pc' = NextFile(idx + 1, allFilesChanged \o filesChanged)
  /\ UNCHANGED <<inputs, unanswered, failure, sourceFiles, useLanguageFolders, call, result,
                 sourceContents, allVerificationIssues, vidx, llmIssues, totals,
                 requests, verified, reported, gitLog>>

\* removeDeletedKeysFromFiles creating the target files that do not exist.
removeDeletedKeysFromFilesCreating ==
  /\ pc = "prune"
  /\ LET file == sourceFiles[idx]
         out(lang) == OutputFile(effectiveOutputDir(file), file, lang)
         updated == cfg.targetLanguages
         text(lang) == IF out(lang) \in DOMAIN fs /\ CanParse(fs[out(lang)])
                       THEN JSONstringify(removeKeys(JSONparse(fs[out(lang)]),
                                                     result.deletedKeys))
                       ELSE JSONstringify(EmptyObject)
         filesChanged == [i \in 1..Len(updated) |-> out(updated[i])]
     IN /\ fs' = [p \in DOMAIN fs \cup Range(filesChanged) |->
                    IF p \in Range(filesChanged)
                    THEN text(CHOOSE l \in Range(updated) : out(l) = p)
                    ELSE fs[p]]
        /\ merges' = merges \o
             [i \in 1..Len(updated) |->
                [source |-> file, lang |-> updated[i], outputFile |-> out(updated[i]),
                 existing |-> ExistingText(out(updated[i])),
                 incoming |-> EmptyObject,
                 deletedKeys |-> result.deletedKeys,
                 isIncremental |-> TRUE,
                 written |-> text(updated[i])]]
        /\ allFilesChanged' = allFilesChanged \o filesChanged
        /\ idx' = idx + 1
        /\ pc' = NextFile(idx + 1, allFilesChanged \o filesChanged)
  /\ UNCHANGED <<inputs, unanswered, failure, sourceFiles, useLanguageFolders, call, result,
                 sourceContents, allVerificationIssues, vidx, llmIssues, totals,
                 requests, verified, reported, gitLog>>

\* removeDeletedKeysFromFiles(...): the deleted keys are removed from each
\* target file that exists and parses, then the next source file.
removeDeletedKeysFromFiles ==
  /\ pc = "prune"
  /\ LET file == sourceFiles[idx]
         out(lang) == OutputFile(effectiveOutputDir(file), file, lang)
         updated == SelectSeq(cfg.targetLanguages,
                      LAMBDA lang : out(lang) \in DOMAIN fs /\ CanParse(fs[out(lang)]))
         text(lang) == JSONstringify(removeKeys(JSONparse(fs[out(lang)]),
                                                result.deletedKeys))
         filesChanged == [i \in 1..Len(updated) |-> out(updated[i])]
     IN /\ fs' = [p \in DOMAIN fs |->
                    IF p \in Range(filesChanged)
                    THEN text(CHOOSE l \in Range(updated) : out(l) = p)
                    ELSE fs[p]]
        /\ merges' = merges \o
             [i \in 1..Len(updated) |->
                [source |-> file, lang |-> updated[i], outputFile |-> out(updated[i]),
                 existing |-> fs[out(updated[i])],
                 incoming |-> EmptyObject,
                 deletedKeys |-> result.deletedKeys,
                 isIncremental |-> TRUE,
                 written |-> text(updated[i])]]
        /\ allFilesChanged' = allFilesChanged \o filesChanged
        /\ idx' = idx + 1
        /\ pc' = NextFile(idx + 1, allFilesChanged \o filesChanged)
  /\ UNCHANGED <<inputs, unanswered, failure, sourceFiles, useLanguageFolders, call, result,
                 sourceContents, allVerificationIssues, vidx, llmIssues, totals,
                 requests, verified, reported, gitLog>>

\* Object.keys(sourceContents).find(f => path.basename(f) === filename):
\* the first source file, in processing order, with that base name.
FindSource(filename) ==
  LET found == SelectSeq(sourceFiles,
                 LAMBDA f : f \in DOMAIN sourceContents /\ basename(f) = filename)
  IN IF found = <<>> THEN NoPath ELSE found[1]

\* Whether the verification loops run a check on a changed file: it is a
\* .json file, it parses, and a source file has its base name.
Verifiable(translatedFile) ==
  /\ translatedFile \in DOMAIN fs
  /\ translatedFile.ext = ".json"
  /\ CanParse(fs[translatedFile])
  /\ FindSource(basename(translatedFile)) # NoPath

\* run, one iteration of the verification loop: the file is read back and
\* verified against the tree of its source file; a file that cannot be
\* read or parsed is logged and passed over.
VerifyFile ==
  /\ pc = "verify"
  /\ vidx <= Len(allFilesChanged)
  /\ LET translatedFile == allFilesChanged[vidx]
         source == sourceContents[FindSource(basename(translatedFile))]
         translatedParsed == JSONparse(fs[translatedFile])
         lang == LangOfPath(translatedFile)
     IN IF Verifiable(translatedFile)
        THEN /\ allVerificationIssues' = allVerificationIssues
                   \o runVerification(source, translatedParsed, lang)
             /\ verified' = Append(verified,
                   [file |-> translatedFile, source |-> source,
                    translated |-> translatedParsed, lang |-> lang,
                    issues |-> runVerification(source, translatedParsed, lang)])
        ELSE UNCHANGED <<allVerificationIssues, verified>>
  /\ IF vidx < Len(allFilesChanged)
     THEN vidx' = vidx + 1 /\ UNCHANGED pc
     ELSE vidx' = 1 /\ pc' = IF cfg.verify THEN "llm" ELSE "report"
  /\ UNCHANGED <<inputs, unanswered, fs, failure, sourceFiles, useLanguageFolders, idx, call,
                 result, allFilesChanged, sourceContents, llmIssues, totals,
                 requests, merges, reported, gitLog>>

\* callLLMVerification sends a request iff some source string has a truthy
\* translation.
HasPairs(sourceContent, translations) ==
  LET sourceFlat == flattenObject(sourceContent, <<>>)
      translatedFlat == flattenObject(translations, <<>>)
  IN \E key \in DOMAIN sourceFlat :
       /\ sourceFlat[key].type = "str"
       /\ key \in DOMAIN translatedFlat
       /\ Truthy(translatedFlat[key])

LlmIssue(lang, key) ==
  [Issue("llm_verification", "warning", key, "LLM verification failed", {})
     EXCEPT !.lang = lang]

\* run, one iteration of the LLM verification loop (callLLMVerification);
\* a failed call or an error response is a warning, never an exception.
\* After the last file the issues found are added to the issue list.
LlmVerifyFile ==
  /\ pc = "llm"
  /\ vidx <= Len(allFilesChanged)
  /\ LET translatedFile == allFilesChanged[vidx]
         source == sourceContents[FindSource(basename(translatedFile))]
         translatedParsed == JSONparse(fs[translatedFile])
         lang == LangOfPath(translatedFile)
         calls == Verifiable(translatedFile) /\ HasPairs(source, translatedParsed)
         last == vidx = Len(allFilesChanged)
     IN \E outcome \in {"pass", "fail", "error"} :
          /\ calls \/ outcome = "pass"
          /\ requests' = IF calls
                         THEN Append(requests, Request("verify", translatedFile, lang,
                                                       Null, FALSE))
                         ELSE requests
          /\ unanswered' = IF outcome = "error" THEN unanswered \cup {"verify"}
                           ELSE unanswered
          /\ LET found == IF outcome = "fail"
                          THEN llmIssues \o [i \in 1..Len(LlmResultIssues) |->
                                               LlmIssue(lang, LlmResultIssues[i])]
                          ELSE llmIssues
             IN /\ llmIssues' = found
                /\ allVerificationIssues' =
                     IF last THEN allVerificationIssues \o found
                     ELSE allVerificationIssues
          /\ IF last THEN vidx' = 1 /\ pc' = "report"
             ELSE vidx' = vidx + 1 /\ UNCHANGED pc
  /\ UNCHANGED <<inputs, fs, failure, sourceFiles, useLanguageFolders, idx, call,
                 result, allFilesChanged, sourceContents, totals, merges,
                 verified, reported, gitLog>>

\* A report that is handed the errors only.
ReportErrorsOnly ==
  /\ pc = "report"
  /\ reported' = SelectSeq(allVerificationIssues, LAMBDA issue : issue.severity = "error")
  /\ vidx' = 1
  /\ pc' = "sync"
  /\ UNCHANGED <<inputs, unanswered, fs, failure, sourceFiles, useLanguageFolders, idx, call,
                 result, allFilesChanged, sourceContents, allVerificationIssues,
                 llmIssues, totals, requests, merges, verified, gitLog>>

\* run: formatVerificationSummary(allVerificationIssues, ...) and the
\* outputs.
Report ==
  /\ pc = "report"
  /\ reported' = allVerificationIssues
  /\ vidx' = 1
  /\ pc' = "sync"
  /\ UNCHANGED <<inputs, unanswered, fs, failure, sourceFiles, useLanguageFolders, idx, call,
                 result, allFilesChanged, sourceContents, allVerificationIssues,
                 llmIssues, totals, requests, merges, verified, gitLog>>

\* reportSyncStatus(apiKey, {...}) for the next source file; whether the
\* request succeeds or not, the run goes on.
reportSyncStatus ==
  /\ pc = "sync"
  /\ vidx <= Len(sourceFiles)
  /\ requests' = Append(requests, Request("sync/status", sourceFiles[vidx], "",
                                          Null, FALSE))
  /\ \E ok \in BOOLEAN :
       unanswered' = IF ok THEN unanswered ELSE unanswered \cup {"sync/status"}
  /\ vidx' = vidx + 1
  /\ UNCHANGED <<inputs, fs, pc, failure, sourceFiles, useLanguageFolders, idx,
                 call, result, allFilesChanged, sourceContents,
                 allVerificationIssues, llmIssues, totals, merges, verified,
                 reported, gitLog>>

\* reportSyncHistory without its try: a failed request is thrown to run().
reportSyncHistoryThrowing ==
  /\ pc = "sync"
  /\ vidx > Len(sourceFiles)
  /\ requests' = Append(requests, Request("sync/history", NoPath, "", Null, FALSE))
  /\ \E ok \in BOOLEAN :
       IF ok
       THEN /\ pc' = "commit"
            /\ UNCHANGED <<unanswered, failure>>
       ELSE /\ unanswered' = unanswered \cup {"sync/history"}
            /\ Fail("sync history failed")
  /\ vidx' = 1
  /\ UNCHANGED <<inputs, fs, sourceFiles, useLanguageFolders, idx, call,
                 result, allFilesChanged, sourceContents, allVerificationIssues,
                 llmIssues, totals, merges, verified, reported, gitLog>>

\* reportSyncHistory(apiKey, {...}); whether the request succeeds or not,
\* the run goes on.
reportSyncHistory ==
  /\ pc = "sync"
  /\ vidx > Len(sourceFiles)
  /\ requests' = Append(requests, Request("sync/history", NoPath, "", Null, FALSE))
  /\ \E ok \in BOOLEAN :
       unanswered' = IF ok THEN unanswered ELSE unanswered \cup {"sync/history"}
  /\ vidx' = 1
  /\ pc' = "commit"
  /\ UNCHANGED <<inputs, fs, failure, sourceFiles, useLanguageFolders, idx, call,
                 result, allFilesChanged, sourceContents, allVerificationIssues,
                 llmIssues, totals, merges, verified, reported, gitLog>>

\* git diff --cached --quiet exits 0: every staged file has the text of
\* the committed tree.
NothingStaged ==
  \A f \in Range(allFilesChanged) : f \in DOMAIN fs0 /\ fs0[f] = fs[f]

\* run committing although no file was changed.
NoFilesTranslatedCommitting ==
  /\ pc = "commit"
  /\ allFilesChanged = <<>>
  /\ gitLog' = gitLog \o <<"add", "commit", "push">>
  /\ pc' = "done"
  /\ UNCHANGED <<inputs, unanswered, fs, failure, sourceFiles, useLanguageFolders, idx, call,
                 result, allFilesChanged, sourceContents, allVerificationIssues,
                 vidx, llmIssues, totals, requests, merges, verified, reported>>

\* run with no file changed: nothing to commit.
NoFilesTranslated ==
  /\ pc = "commit"
  /\ allFilesChanged = <<>>
  /\ pc' = "done"
  /\ UNCHANGED <<inputs, unanswered, fs, failure, sourceFiles, useLanguageFolders, idx, call,
                 result, allFilesChanged, sourceContents, allVerificationIssues,
                 vidx, llmIssues, totals, requests, merges, verified, reported,
                 gitLog>>

\* commitChanges(filesChanged, commitMessage)
commitChanges ==
  /\ pc = "commit"
  /\ allFilesChanged # <<>>
  /\ ~cfg.createPR
  /\ IF NothingStaged
     THEN /\ gitLog' = gitLog \o <<"add">>
          /\ pc' = "done"
          /\ UNCHANGED failure
     ELSE \E pushed \in BOOLEAN :
            IF pushed
            THEN /\ gitLog' = gitLog \o <<"add", "commit", "push">>
                 /\ pc' = "done"
                 /\ UNCHANGED failure
            ELSE /\ gitLog' = gitLog \o <<"add", "commit">>
                 /\ Fail("git push failed")
  /\ UNCHANGED <<inputs, unanswered, fs, sourceFiles, useLanguageFolders, idx, call, result,
                 allFilesChanged, sourceContents, allVerificationIssues, vidx,
                 llmIssues, totals, requests, merges, verified, reported>>

\* createPullRequest(filesChanged, ...): git commit exits non-zero, and
\* exec throws, when nothing is staged.
createPullRequest ==
  /\ pc = "commit"
  /\ allFilesChanged # <<>>
  /\ cfg.createPR
  /\ IF NothingStaged
     THEN /\ gitLog' = gitLog \o <<"checkout", "add">>
          /\ Fail("git commit failed")
     ELSE \E pushed, created \in BOOLEAN :
            IF ~pushed
            THEN /\ gitLog' = gitLog \o <<"checkout", "add", "commit">>
                 /\ Fail("git push failed")
            ELSE IF ~created
            THEN /\ gitLog' = gitLog \o <<"checkout", "add", "commit", "push">>
                 /\ Fail("pull request failed")
            ELSE /\ gitLog' = gitLog \o <<"checkout", "add", "commit", "push", "pr">>
                 /\ pc' = "done"
                 /\ UNCHANGED failure
  /\ UNCHANGED <<inputs, unanswered, fs, sourceFiles, useLanguageFolders, idx, call, result,
                 allFilesChanged, sourceContents, allVerificationIssues, vidx,
                 llmIssues, totals, requests, merges, verified, reported>>

Next ==
  \/ Discover
  \/ BeginFile
  \/ callTranslateAPI
  \/ callTranslateAPIFails
  \/ callSelfCorrectingAPI
  \/ callSelfCorrectingAPIFails
  \/ writeTranslatedFiles
  \/ removeDeletedKeysFromFiles
  \/ VerifyFile
  \/ LlmVerifyFile
  \/ Report
  \/ reportSyncStatus
  \/ reportSyncHistory
  \/ NoFilesTranslated
  \/ commitChanges
  \/ createPullRequest

Spec == Init /\ [][Next]_vars

(***************************************************************************)
(* The helpers on their own: each is applied once to arguments drawn from   *)
(* the trees below.                                                         *)
(***************************************************************************)
\* The scalars and arrays a locale tree may hold as leaves
Leaves == {Str(hi), Str(bye), Num("1"), Bool("f"), Null, Arr(<<"x">>)}

\* The mappings over a set of keys with values in a set
Mappings(keys, values) ==
  {Obj(f) : f \in UNION {[S -> values] : S \in SUBSET keys}}

\* Locale trees of two levels, empty mappings included, no dot in a key
Trees(leaves) ==
  Mappings({kg, km}, leaves \cup Mappings({kt, ku}, leaves \cup {EmptyObject}))

\* The application of a helper that is still to be done
ToApply(op, args) == [op |-> op, args |-> args, value |-> Null, applied |-> FALSE]

Applied(value) == [pure EXCEPT !.value = value, !.applied = TRUE]

\* Everything of a run, which no helper touches
run == <<cfg, fs, fs0, git, dirEntries, pc, failure, sourceFiles,
         useLanguageFolders, idx, call, result, allFilesChanged, sourceContents,
         allVerificationIssues, vidx, llmIssues, totals, requests, merges,
         verified, reported, gitLog, unanswered>>

\* unflattenObject(flattenObject(t))
RoundTrip ==
  /\ pure.op = "roundTrip" /\ ~pure.applied
  /\ pure' = Applied(unflattenObject(flattenObject(pure.args[1], <<>>)))
  /\ UNCHANGED run

\* The trees of the example of the diff: {a: {b: "hi"}, c: "x"} and
\* {a: {b: "hello"}, d: "y"}
ExampleOld ==
  Obj((<<"a">> :> Obj(<<"b">> :> Str(<<"h", "i">>))) @@ (<<"c">> :> Str(<<"x">>)))

ExampleNew ==
  Obj((<<"a">> :> Obj(<<"b">> :> Str(<<"h", "e", "l", "l", "o">>)))
      @@ (<<"d">> :> Str(<<"y">>)))

\* The pairs of an old and a new tree that are diffed
DiffTrees == Mappings({kg, km}, {Str(hi), Str(bye), Null, Arr(<<"x">>)}
                                \cup Mappings({kt}, {Str(hi), Str(bye), Null, Arr(<<"x">>)}))

\* detectChangedKeys(oldContent, newContent)
DetectChangedKeys ==
  /\ pure.op = "detectChangedKeys" /\ ~pure.applied
  /\ pure' = Applied(detectChangedKeys(pure.args[1], pure.args[2]))
  /\ UNCHANGED run

\* The trees of the example of the merge: {a: "1", b: "2"} and {b: "3"}
ExampleExisting == Obj((<<"a">> :> Str(<<"1">>)) @@ (<<"b">> :> Str(<<"2">>)))

ExampleIncoming == Obj(<<"b">> :> Str(<<"3">>))

\* The existing and incoming trees that are merged
MergeTrees == Mappings({kg, km}, {Str(hi), Num("1"), Null, Arr(<<"x">>)}
                                 \cup Mappings({kt, ku}, {Str(hi), Str(bye)}))

\* deepMerge(existingParsed, newContent)
DeepMerge ==
  /\ pure.op = "deepMerge" /\ ~pure.applied
  /\ pure' = Applied(deepMerge(pure.args[1], pure.args[2]))
  /\ UNCHANGED run

\* The tree and the path of the example of the pruning:
\* {a: {b: "1", c: "2"}} and a.b
ExamplePruned ==
  Obj(<<"a">> :> Obj((<<"b">> :> Str(<<"1">>)) @@ (<<"c">> :> Str(<<"2">>))))

\* A tree with a dot in a key: {m: "Hi {n}", "m.t": "Bye"}
DottedTree == Obj((km :> Str(hi)) @@ (<<"m", ".", "t">> :> Str(bye)))

\* The trees that are pruned and the paths they are pruned of
PrunedTrees == Mappings({kg, km}, {Str(hi), Null, Arr(<<"x">>)}
                                  \cup Mappings({kt, ku}, {Str(hi), Str(bye)}))

PrunedPaths == {kg, km, <<"m", ".", "t">>, <<"m", ".", "u">>, <<"x">>}

\* removeKeys(existingParsed, deletedKeys)
RemoveKeys ==
  /\ pure.op = "removeKeys" /\ ~pure.applied
  /\ pure' = Applied(removeKeys(pure.args[1], pure.args[2]))
  /\ UNCHANGED run

\* Values with placeholders: "Hi {n}", "{n} {n}", "{a}{b}", "{b}{a}", "%s",
\* and values without
PlaceholderValues ==
  {Str(hi), Str(<<"{", "n", "}", " ", "{", "n", "}">>),
   Str(<<"{", "a", "}", "{", "b", "}">>), Str(<<"{", "b", "}", "{", "a", "}">>),
   Str(<<"%", "s">>), Str(bye), Num("1"), Null}

\* The source and translated trees that are verified
VerifiedTrees == Mappings({kg, km}, PlaceholderValues)

\* runVerification(sourceContents[sourceFile], translatedParsed, lang)
RunVerification ==
  /\ pure.op = "runVerification" /\ ~pure.applied
  /\ pure' = Applied(runVerification(pure.args[1], pure.args[2], "es"))
  /\ UNCHANGED run

\* The longest source string whose length check is applied
MaxSourceLength == 10

\* A string of n characters
Filled(n) == Str([i \in 1..n |-> "x"])

\* The values whose lengths are compared: the strings up to the longest
\* source, the translations up to six times that, and a
\* value that is not a string
SourceValues == {Filled(n) : n \in 0..MaxSourceLength} \cup {Num("1")}

TranslatedValues == {Filled(n) : n \in 0..(6 * MaxSourceLength)} \cup {Num("1")}

\* verifyLengthSanity(sourceValue, translatedValue, key)
VerifyLengthSanity ==
  /\ pure.op = "verifyLengthSanity" /\ ~pure.applied
  /\ pure' = Applied(verifyLengthSanity(pure.args[1], pure.args[2], kg))
  /\ UNCHANGED run

\* The keys a response body can have: two language codes and the metadata
ResponseKeys == {"es", "de"} \cup MetadataFields

\* The values the skipped field of a response body can have
SkippedValues ==
  {Obj((CountKey :> Num("1")) @@ (<<"k", "e", "y", "s">> :> Arr(<<"g">>))),
   Null, Num("0"), Bool("f"), Str(<<>>)}

\* The response body with the keys K, and with the skipped field when
\* withSkipped is a singleton
ResponseBody(K, withSkipped) ==
  [k \in K \cup {"skipped" : v \in withSkipped} |->
     IF k = "skipped" THEN CHOOSE v \in withSkipped : TRUE
     ELSE IF k \in MetadataFields THEN Arr(<<>>)
     ELSE JSONstringify(Translated(TreeA))]

\* The bodies of successful responses
ResponseBodies ==
  {ResponseBody(K, withSkipped) :
     K \in SUBSET (ResponseKeys \ {"skipped"}),
     withSkipped \in {{}} \cup {{v} : v \in SkippedValues}}

\* callTranslateAPI(apiKey, content, ...) on a successful response
CallTranslateAPI ==
  /\ pure.op = "callTranslateAPI" /\ ~pure.applied
  /\ pure' = Applied(callTranslateAPIReturn(pure.args[1]))
  /\ UNCHANGED run

InitHelpers ==
  /\ cfg = Config(NoPath, <<>>, <<"es">>, TRUE, FALSE, FALSE, FALSE, <<>>)
  /\ dirEntries = <<>>
  /\ fs = <<>>
  /\ git = <<>>
  /\ InitRun
  /\ \/ \E t \in Trees(Leaves \ {Str(bye)}) : pure = ToApply("roundTrip", <<t>>)
     \/ \E old, new \in DiffTrees : pure = ToApply("detectChangedKeys", <<old, new>>)
     \/ pure = ToApply("detectChangedKeys", <<ExampleOld, ExampleNew>>)
     \/ \E existing, incoming \in MergeTrees :
          pure = ToApply("deepMerge", <<existing, incoming>>)
     \/ pure = ToApply("deepMerge", <<ExampleExisting, ExampleIncoming>>)
     \/ \E t \in PrunedTrees \cup {DottedTree}, P \in SUBSET PrunedPaths :
          pure = ToApply("removeKeys", <<t, P>>)
     \/ pure = ToApply("removeKeys", <<ExamplePruned, {<<"a", ".", "b">>}>>)
     \/ \E source, translated \in VerifiedTrees :
          pure = ToApply("runVerification", <<source, translated>>)
     \/ \E source \in SourceValues, translated \in TranslatedValues :
          pure = ToApply("verifyLengthSanity", <<source, translated>>)
     \/ \E response \in ResponseBodies : pure = ToApply("callTranslateAPI", <<response>>)

NextHelpers ==
  \/ RoundTrip
  \/ DetectChangedKeys
  \/ DeepMerge
  \/ RemoveKeys
  \/ RunVerification
  \/ VerifyLengthSanity
  \/ CallTranslateAPI

SpecHelpers == InitHelpers /\ [][NextHelpers]_vars

(***************************************************************************)
(* Properties                                                              *)
(***************************************************************************)
TranslationApis == {"translate", "self-correct"}

\* The tree of a source file as the run reads it
SourceTree(f) == JSONparse(fs0[f])

IsJsonSource(f) == f \in DOMAIN fs0 /\ f.ext = ".json" /\ CanParse(fs0[f])

\* The prior revision of f was retrieved and parses
HasBaseline(f) == f \in DOMAIN git /\ Truthy(git[f]) /\ CanParse(git[f])

\* The change set of a source file against its prior revision
ChangesOf(f) == detectChangedKeys(JSONparse(git[f]), SourceTree(f))

\* f is processed in incremental mode and its change set is empty: its
\* prior revision and its current tree have the same leaves
Unchanged(f) ==
  /\ cfg.incremental /\ IsJsonSource(f) /\ HasBaseline(f)
  /\ flattenObject(JSONparse(git[f]), <<>>) = flattenObject(SourceTree(f), <<>>)

\* The leaf paths a translation returned for one language: those of the
\* tree, or of the tree a string holds as JSON text.
ReturnedPaths(incoming) ==
  IF incoming.type = "json" THEN DOMAIN flattenObject(JSONparse(incoming), <<>>)
  ELSE IF incoming.type = "obj" THEN DOMAIN flattenObject(incoming, <<>>)
  ELSE {}

\* The leaf map of a file text, empty when the text is not JSON
LeafMap(text) == IF CanParse(text) THEN flattenObject(JSONparse(text), <<>>) ELSE <<>>

\* C1: in an incremental run, every leaf path of an existing, parseable
\* target file that is neither deleted nor returned by the translation
\* call keeps its prior value in the file written, whether the remote
\* returned a tree or a string for the language.
C1_PriorLeavesKept ==
  \A i \in 1..Len(merges) :
    LET m == merges[i]
    IN (m.isIncremental /\ m.existing # NoText /\ CanParse(m.existing)) =>
         \A p \in DOMAIN LeafMap(m.existing) \ (m.deletedKeys \cup ReturnedPaths(m.incoming)) :
           /\ p \in DOMAIN LeafMap(m.written)
           /\ LeafMap(m.written)[p] = LeafMap(m.existing)[p]

AllUnchanged == sourceFiles # <<>> /\ \A f \in Range(sourceFiles) : Unchanged(f)

C3_UnchangedFileSkipped ==
  \A f \in Range(sourceFiles) :
    Unchanged(f) =>
      /\ \A i \in 1..Len(requests) :
           requests[i].api \in TranslationApis => requests[i].file # f
      /\ \A i \in 1..Len(merges) : merges[i].source # f
      /\ \A lang \in Range(cfg.targetLanguages) \cup {"de"} :
           LET target == OutputFile(effectiveOutputDir(f), f, lang)
           IN /\ target \notin Range(allFilesChanged)
              /\ ExistingText(target) = IF target \in DOMAIN fs0 THEN fs0[target] ELSE NoText

C3_Witness ==
  /\ pc = "done"
  /\ merges # <<>>
  /\ \E i \in 1..Len(sourceFiles) : Unchanged(sourceFiles[i])

TranslationFailed == failure \in {"Translation API error", "Self-correcting API error"}

\* C4: once the translation call of a source file has failed the run has
\* ended in failure: no later source file was translated or written, no
\* verification was run and nothing was committed, pushed or proposed.
C4_TranslationFailureIsFatal ==
  TranslationFailed =>
    /\ pc = "failed"
    /\ \A i \in 1..Len(requests) :
         /\ requests[i].api \in TranslationApis
         /\ \E j \in 1..idx : requests[i].file = sourceFiles[j]
    /\ \A i \in 1..Len(merges) : \E j \in 1..(idx - 1) : merges[i].source = sourceFiles[j]
    /\ verified = <<>> /\ llmIssues = <<>> /\ reported = <<>>
    /\ gitLog = <<>>

C4_Witness ==
  TranslationFailed /\ idx < Len(sourceFiles) /\ cfg.createPR

\* C5 as stated: a failed run has written or modified no target file, and
\* a completed run has processed every source file.
C5_NoMixedOutcome ==
  /\ pc = "failed" => fs = fs0
  /\ pc = "done" => idx > Len(sourceFiles)

\* The paths written for the source files before the idx-th
EarlierOutputs ==
  {merges[i].outputFile : i \in {k \in 1..Len(merges) :
     \E j \in 1..(idx - 1) : merges[k].source = sourceFiles[j]}}

\* C5 amended: a run that fails while processing a source file (the file
\* cannot be read or parsed, or its translation call fails) leaves the
\* target files of the source files processed before it as written, has
\* written or modified no other file and has committed nothing; a
\* completed run has processed every source file.
C5_FailureKeepsEarlierWrites ==
  /\ (pc = "failed" /\ idx <= Len(sourceFiles)) =>
       /\ \A i \in 1..Len(merges) : \E j \in 1..(idx - 1) : merges[i].source = sourceFiles[j]
       /\ \A p \in (DOMAIN fs \cup DOMAIN fs0) \ EarlierOutputs :
            p \in DOMAIN fs /\ p \in DOMAIN fs0 /\ fs[p] = fs0[p]
       /\ \A p \in EarlierOutputs :
            \E i \in 1..Len(merges) : merges[i].outputFile = p /\ fs[p] = merges[i].written
       /\ gitLog = <<>>
  /\ pc = "done" => idx > Len(sourceFiles)

C5_Witness == pc = "failed" /\ idx <= Len(sourceFiles) /\ fs # fs0

\* C6: when incremental mode is requested and the prior revision of a
\* source file is missing or does not parse, the whole current tree of
\* the file is sent and its result is not incremental, the run does not
\* fail on it unless its translation call fails, and the other source
\* files are still processed incrementally.
C6_NoBaselineFallsBack ==
  cfg.incremental =>
    /\ \A i \in 1..Len(requests) :
         LET r == requests[i]
         IN (r.api \in TranslationApis /\ IsJsonSource(r.file) /\ ~HasBaseline(r.file)) =>
              r.content = SourceTree(r.file)
    /\ \A i \in 1..Len(merges) :
         IsJsonSource(merges[i].source) =>
           merges[i].isIncremental = HasBaseline(merges[i].source)
    /\ \A j \in 1..Len(sourceFiles) :
         (pc = "failed" /\ idx = j /\ IsJsonSource(sourceFiles[j])
          /\ ~HasBaseline(sourceFiles[j])) => TranslationFailed

C6_Witness ==
  /\ pc = "done"
  /\ cfg.incremental
  /\ \E i, j \in 1..Len(merges) :
       /\ IsJsonSource(merges[i].source)
       /\ ~HasBaseline(merges[i].source) /\ ~merges[i].isIncremental
       /\ merges[i].written = OutputContent(Translated(SourceTree(merges[i].source)))
       /\ HasBaseline(merges[j].source) /\ merges[j].isIncremental

C6_WitnessUnparseable ==
  /\ pc = "done"
  /\ cfg.incremental
  /\ \E i \in 1..Len(merges) :
       /\ merges[i].source \in DOMAIN git /\ ~CanParse(git[merges[i].source])
       /\ ~merges[i].isIncremental

VerificationOver == pc \in {"llm", "report", "sync", "commit", "done"}

\* C7: every JSON target file written during a run is verified exactly
\* once after all writes, against the full current tree of its source
\* file and its own content read back from disk.
C7_WrittenFilesVerifiedOnce ==
  VerificationOver =>
    \A i \in 1..Len(merges) :
      LET m == merges[i]
      IN m.outputFile.ext = ".json" =>
           /\ Cardinality({k \in 1..Len(verified) : verified[k].file = m.outputFile}) = 1
           /\ \A k \in 1..Len(verified) :
                verified[k].file = m.outputFile =>
                  /\ verified[k].source = SourceTree(m.source)
                  /\ verified[k].translated = JSONparse(fs[m.outputFile])

RECURSIVE IssuesOf(_)
IssuesOf(checks) ==
  IF checks = <<>> THEN <<>> ELSE Head(checks).issues \o IssuesOf(Tail(checks))

\* C8: no verification finding and no unreadable translated file ends the
\* run: after the file loop the run fails only in the commit or
\* pull-request step, and the issue list handed to the report holds every
\* issue the verifier and the LLM verification produced.
C8_FindingsNeverAbort ==
  /\ (pc = "failed" /\ idx > Len(sourceFiles) /\ sourceFiles # <<>>) =>
       /\ failure \in {"git push failed", "git commit failed", "pull request failed"}
       /\ gitLog # <<>>
  /\ pc \in {"sync", "commit", "done"} \/ (pc = "failed" /\ gitLog # <<>>) =>
       reported = IssuesOf(verified) \o llmIssues

C8_Witness ==
  /\ pc = "done"
  /\ \E i \in 1..Len(reported) : reported[i].severity = "error"
  /\ \E i \in 1..Len(reported) : reported[i].type = "llm_verification"
  /\ Len(verified) < Len(allFilesChanged)

\* A leaf path matches a configured exclusion (a skip key or a skip path
\* without wildcard names exactly one path)
Excluded(p) == p \in Range(skipKeys) \cup Range(skipPaths)

\* C9 as stated: the content of a translation request holds no leaf path
\* that matches a configured exclusion.
C9_ExcludedKeysNotSent ==
  \A i \in 1..Len(requests) :
    requests[i].api \in TranslationApis =>
      \A p \in DOMAIN flattenObject(requests[i].content, <<>>) : ~Excluded(p)

\* The leaf paths translateFile has to send for a JSON source file
PathsToSend(f) ==
  IF cfg.incremental /\ HasBaseline(f)
  THEN LET changes == ChangesOf(f) IN changes.added \cup changes.modified
  ELSE DOMAIN flattenObject(SourceTree(f), <<>>)

\* The request r holds every leaf path its file has to send, with its
\* source value
SendsUnfiltered(r) ==
  LET sent == flattenObject(r.content, <<>>)
      current == flattenObject(SourceTree(r.file), <<>>)
  IN (r.api \in TranslationApis /\ IsJsonSource(r.file)) =>
       \A p \in PathsToSend(r.file) : p \in DOMAIN sent /\ sent[p] = current[p]

\* C9 amended: exclusions are not applied locally: the content of every
\* translation request, at the step that issues it, holds every leaf path
\* the file has to send, with its source value, the paths that match a
\* configured exclusion included.
C9_ExcludedKeysSentUnfiltered ==
  [][\A i \in (Len(requests) + 1)..Len(requests') : SendsUnfiltered(requests'[i])]_vars

C9_Witness ==
  \E i \in 1..Len(requests) :
    /\ requests[i].api = "translate"
    /\ \E p \in DOMAIN flattenObject(requests[i].content, <<>>) : Excluded(p)

\* C10: every translation request, standard or self-correcting, carries
\* the parsed skipKeys and skipPaths lists of the run unchanged.
C10_SkipListsCarried ==
  \A i \in 1..Len(requests) :
    requests[i].api \in TranslationApis =>
      /\ requests[i].carriesSkip
      /\ requests[i].skipKeys = skipKeys
      /\ requests[i].skipPaths = skipPaths

\* The translation requests issued for a source file
TranslationRequestsOf(f) ==
  {i \in 1..Len(requests) : requests[i].api \in TranslationApis /\ requests[i].file = f}

\* The target languages a translation request asks for
LanguagesOf(r) == IF r.api = "translate" THEN r.targetLanguages ELSE <<r.lang>>

\* C11 as stated: for every source file at most one translation request
\* is issued, and it asks for all the target languages together.
C11_OneBatchedCallPerFile ==
  \A f \in Range(sourceFiles) :
    /\ Cardinality(TranslationRequestsOf(f)) <= 1
    /\ \A i \in TranslationRequestsOf(f) : LanguagesOf(requests[i]) = cfg.targetLanguages

\* C11 amended: in standard mode at most one translation request is
\* issued for a source file and it asks for all the target languages
\* together; in self-correcting mode one request is issued per target
\* language, each for that language alone, at most once per language.
C11_CallsPerFile ==
  \A f \in Range(sourceFiles) :
    LET rs == TranslationRequestsOf(f)
    IN /\ Cardinality(rs) <= Len(cfg.targetLanguages)
       /\ \A i \in rs :
            IF requests[i].api = "translate"
            THEN rs = {i} /\ requests[i].targetLanguages = cfg.targetLanguages
            ELSE /\ cfg.selfCorrect
                 /\ requests[i].lang \in Range(cfg.targetLanguages)
                 /\ \A j \in rs : /\ requests[j].api = "self-correct"
                                  /\ j # i => requests[j].lang # requests[i].lang

C11_Witness ==
  /\ pc = "done"
  /\ \E f \in Range(sourceFiles) : Cardinality(TranslationRequestsOf(f)) = 2

GitFailures == {"git push failed", "git commit failed", "pull request failed"}

\* No request is issued twice: a failed call is never retried
NoRetry ==
  \A i, j \in 1..Len(requests) :
    (i # j) => <<requests[i].api, requests[i].file, requests[i].lang>>
               # <<requests[j].api, requests[j].file, requests[j].lang>>

\* C12 as stated: once any remote call of the run has failed (translation,
\* verification, status or history report) the run has ended in failure
\* and nothing is committed or proposed; no call is retried.
C12_AnyFailedCallIsFatal ==
  /\ unanswered # {} => (pc = "failed" /\ gitLog = <<>>)
  /\ NoRetry

\* C12 amended: a failed translation call ends the run in failure with
\* nothing committed or proposed; a failed verification, status or
\* history call does not: the run goes on and fails only if the commit or
\* pull-request step fails; no call is retried.
C12_OnlyTranslationFailureIsFatal ==
  /\ unanswered \cap TranslationApis # {} => (pc = "failed" /\ gitLog = <<>>)
  /\ (unanswered # {} /\ unanswered \cap TranslationApis = {} /\ pc = "failed") =>
       (failure \in GitFailures /\ gitLog # <<>>)
  /\ NoRetry

C12_Witness ==
  /\ pc = "done"
  /\ unanswered = {"verify", "sync/status", "sync/history"}
  /\ gitLog = <<"add", "commit", "push">>

\* No file of extension .json, .yaml or .yml directly inside the directory
NoLocaleFile ==
  \A i \in 1..Len(dirEntries) :
    ~(dirEntries[i].isFile /\ dirEntries[i].ext \in {".json", ".yaml", ".yml"})

\* C13: when neither source-file nor source-dir is configured, when both
\* are, or when the configured directory has no .json, .yaml or .yml file
\* directly inside it, the run fails in discovery: no source file is
\* taken up, read, translated or written.
C13_DiscoveryFails ==
  LET neither == cfg.sourceFile = NoPath /\ cfg.sourceDir = <<>>
      both == cfg.sourceFile # NoPath /\ cfg.sourceDir # <<>>
      empty == cfg.sourceFile = NoPath /\ cfg.sourceDir # <<>> /\ NoLocaleFile
  IN (neither \/ both \/ empty) =>
       /\ pc \in {"start", "failed"}
       /\ pc = "failed" =>
            failure = IF neither THEN "Either source-file or source-dir must be specified"
                      ELSE IF both THEN "Specify either source-file or source-dir, not both"
                      ELSE "No translatable files found"
       /\ sourceFiles = <<>> /\ sourceContents = <<>> /\ idx = 1
       /\ requests = <<>> /\ merges = <<>> /\ fs = fs0 /\ gitLog = <<>>

C13_Witness ==
  /\ pc = "failed"
  /\ cfg.sourceFile = NoPath /\ cfg.sourceDir # <<>>
  /\ \E i \in 1..Len(dirEntries) : ~dirEntries[i].isFile /\ dirEntries[i].ext = ".json"
  /\ \E i \in 1..Len(dirEntries) : dirEntries[i].isFile /\ dirEntries[i].ext = ".txt"

\* C14: when every staged target file has the text already committed, no
\* commit is created and the run does not fail, in direct-commit mode and
\* in pull-request mode alike.
C14_NoCommitWithoutChange ==
  LET identical == \A f \in Range(allFilesChanged) : f \in DOMAIN fs0 /\ fs[f] = fs0[f]
  IN (gitLog # <<>> /\ identical) =>
       /\ "commit" \notin Range(gitLog)
       /\ pc = "done"

\* C15: for every tree whose keys have no dot, empty nested mappings,
\* arrays, numbers, booleans and null leaves included,
\* unflatten(flatten(t)) is structurally equal to t.
C15_RoundTrip ==
  (pure.op = "roundTrip" /\ pure.applied) => pure.value = pure.args[1]

RECURSIVE LeavesOf(_)
\* The leaves of a tree as pairs of a dot-path and a value: a value that is
\* not a mapping is a leaf, a mapping contributes the leaves below it
LeavesOf(t) ==
  UNION {IF IsMapping(t.obj[k])
         THEN {<<k \o <<Dot>> \o leaf[1], leaf[2]>> : leaf \in LeavesOf(t.obj[k])}
         ELSE {<<k, t.obj[k]>>} : k \in DOMAIN t.obj}

PathsOf(t) == {leaf[1] : leaf \in LeavesOf(t)}

RECURSIVE KeepsOwnKeys(_, _, _)
\* merged keeps every key that only existing has, at this level and at
\* every level below where existing and incoming both have a mapping
KeepsOwnKeys(existing, incoming, merged) ==
  /\ IsMapping(merged)
  /\ \A k \in DOMAIN existing.obj :
       IF k \notin DOMAIN incoming.obj
       THEN k \in DOMAIN merged.obj /\ merged.obj[k] = existing.obj[k]
       ELSE (IsMapping(existing.obj[k]) /\ IsMapping(incoming.obj[k])) =>
              /\ k \in DOMAIN merged.obj
              /\ KeepsOwnKeys(existing.obj[k], incoming.obj[k], merged.obj[k])

\* C17: deepMerge(existing, incoming) has every key that only existing
\* has, with its value unchanged, at the root and at every nesting level
\* where both sides are mappings; deepMerge({a: "1", b: "2"}, {b: "3"})
\* is {a: "1", b: "3"}.
C17_MergeKeepsExistingKeys ==
  (pure.op = "deepMerge" /\ pure.applied) =>
    /\ KeepsOwnKeys(pure.args[1], pure.args[2], pure.value)
    /\ pure.args = <<ExampleExisting, ExampleIncoming>> =>
         pure.value = Obj((<<"a">> :> Str(<<"1">>)) @@ (<<"b">> :> Str(<<"3">>)))

C17_Witness ==
  /\ pure.op = "deepMerge" /\ pure.applied
  /\ LET existing == pure.args[1].obj
         incoming == pure.args[2].obj
     IN /\ kg \in DOMAIN existing \ DOMAIN incoming
        /\ km \in DOMAIN existing \cap DOMAIN incoming
        /\ IsMapping(existing[km]) /\ IsMapping(incoming[km])
        /\ kt \in DOMAIN existing[km].obj \ DOMAIN incoming[km].obj
        /\ ku \in DOMAIN incoming[km].obj
        /\ pure.value.obj[km].obj[kt] = existing[km].obj[kt]

\* C18: for every key k of incoming such that existing[k] and incoming[k]
\* are not both mappings, deepMerge(existing, incoming)[k] is incoming[k],
\* whether existing[k] is absent, a scalar or an array while incoming[k]
\* is a mapping, or incoming[k] a scalar or array.
C18_IncomingWins ==
  (pure.op = "deepMerge" /\ pure.applied) =>
    LET existing == pure.args[1].obj
        incoming == pure.args[2].obj
    IN \A k \in DOMAIN incoming :
         ~(k \in DOMAIN existing /\ IsMapping(existing[k]) /\ IsMapping(incoming[k])) =>
           pure.value.obj[k] = incoming[k]

\* The leaves of t but those at the paths of P
LeavesWithout(t, P) == {leaf \in LeavesOf(t) : leaf[1] \notin P}

\* C19 as stated: for every tree t and path set P, the leaves of
\* removeKeys(t, P) are the leaves of t but those at the paths of P.
C19_PruneRemovesExactly ==
  (pure.op = "removeKeys" /\ pure.applied) =>
    LeavesOf(pure.value) = LeavesWithout(pure.args[1], pure.args[2])

RECURSIVE NoDotInKeys(_)
NoDotInKeys(t) ==
  \A k \in DOMAIN t.obj :
    /\ \A i \in 1..Len(k) : k[i] # Dot
    /\ IsMapping(t.obj[k]) => NoDotInKeys(t.obj[k])

\* C19 amended: for every tree t whose keys have no dot and every path
\* set P, the leaves of removeKeys(t, P) are the leaves of t but those at
\* the paths of P; removeKeys({a: {b: "1", c: "2"}}, [a.b]) is
\* {a: {c: "2"}}.
C19_PruneRemovesExactlyWithoutDots ==
  (pure.op = "removeKeys" /\ pure.applied /\ NoDotInKeys(pure.args[1])) =>
    /\ LeavesOf(pure.value) = LeavesWithout(pure.args[1], pure.args[2])
    /\ pure.args = <<ExamplePruned, {<<"a", ".", "b">>}>> =>
         pure.value = Obj(<<"a">> :> Obj(<<"c">> :> Str(<<"2">>)))

C19_Witness ==
  /\ pure.op = "removeKeys" /\ pure.applied
  /\ NoDotInKeys(pure.args[1])
  /\ pure.args[2] = {km, <<"m", ".", "t">>, <<"x">>}
  /\ PathsOf(pure.args[1]) = {kg, <<"m", ".", "t">>, <<"m", ".", "u">>}
  /\ PathsOf(pure.value) = {kg, <<"m", ".", "u">>}

\* The placeholder issues a verification raised for a key
PlaceholderIssues(issues, key) ==
  {i \in 1..Len(issues) : issues[i].type = "placeholder" /\ issues[i].key = key}

\* At most one placeholder issue for the key, of severity error, naming
\* the missing tokens if a source token is missing and the unexpected
\* tokens otherwise
WellFormedPlaceholderIssues(issues, key, sourceTokens, translatedTokens) ==
  /\ Cardinality(PlaceholderIssues(issues, key)) <= 1
  /\ \A i \in PlaceholderIssues(issues, key) :
       /\ issues[i].severity = "error"
       /\ IF sourceTokens \ translatedTokens # {}
          THEN /\ issues[i].msg = "Missing placeholders"
               /\ issues[i].keys = sourceTokens \ translatedTokens
          ELSE /\ issues[i].msg = "Unexpected placeholders"
               /\ issues[i].keys = translatedTokens \ sourceTokens

\* C20 as stated: for a leaf key of both source and translation a
\* placeholder issue is raised iff both values are strings and their sets
\* of distinct placeholder tokens differ; at most one per key, of
\* severity error, naming the missing tokens if any and the unexpected
\* tokens otherwise.
C20_PlaceholderIssueIffStrings ==
  (pure.op = "runVerification" /\ pure.applied) =>
    LET source == pure.args[1].obj
        translated == pure.args[2].obj
    IN \A key \in DOMAIN source \cap DOMAIN translated :
         LET sourceTokens == extractPlaceholders(source[key])
             translatedTokens == extractPlaceholders(translated[key])
         IN /\ PlaceholderIssues(pure.value, key) # {} <=>
                 /\ source[key].type = "str" /\ translated[key].type = "str"
                 /\ sourceTokens # translatedTokens
            /\ WellFormedPlaceholderIssues(pure.value, key, sourceTokens, translatedTokens)

\* C20 amended: for a leaf key of both source and translation a
\* placeholder issue is raised iff the sets of distinct placeholder tokens
\* of the two values differ, a value that is not a string having no
\* token; at most one per key, of severity error, naming the missing
\* tokens if any and the unexpected tokens otherwise.
C20_PlaceholderIssueIffTokensDiffer ==
  (pure.op = "runVerification" /\ pure.applied) =>
    LET source == pure.args[1].obj
        translated == pure.args[2].obj
    IN \A key \in DOMAIN source \cap DOMAIN translated :
         LET sourceTokens == IF source[key].type = "str"
                             THEN extractPlaceholders(source[key]) ELSE {}
             translatedTokens == IF translated[key].type = "str"
                                 THEN extractPlaceholders(translated[key]) ELSE {}
         IN /\ PlaceholderIssues(pure.value, key) # {} <=>
                 sourceTokens # translatedTokens
            /\ WellFormedPlaceholderIssues(pure.value, key, sourceTokens, translatedTokens)

C20_Witness ==
  /\ pure.op = "runVerification" /\ pure.applied
  /\ pure.args[1] = Obj((kg :> Str(<<"{", "a", "}", "{", "b", "}">>)) @@ (km :> Num("1")))
  /\ pure.args[2] = Obj((kg :> Str(<<"{", "b", "}", "{", "a", "}">>)) @@ (km :> Str(hi)))
  /\ PlaceholderIssues(pure.value, kg) = {}
  /\ \E i \in PlaceholderIssues(pure.value, km) :
       pure.value[i].msg = "Unexpected placeholders"

\* C21: for string values of lengths s (source) and t (translation) the
\* verifier raises a length issue iff s >= 5 and (t > 5*s or 5*t < s), the
\* issue is a warning, and the bounds are exclusive: lengths 10 and 60 give
\* a warning, 10 and 50 none, 10 and 2 none.
C21_LengthIssueIffOutOfRatio ==
  (pure.op = "verifyLengthSanity" /\ pure.applied
   /\ pure.args[1].type = "str" /\ pure.args[2].type = "str") =>
    LET s == Len(pure.args[1].str)
        t == Len(pure.args[2].str)
    IN /\ Len(pure.value) <= 1
       /\ pure.value # <<>> <=> (s >= 5 /\ (t > 5 * s \/ 5 * t < s))
       /\ \A i \in 1..Len(pure.value) :
            pure.value[i].type = "length" /\ pure.value[i].severity = "warning"
       /\ (s = 10 /\ t = 60) => pure.value # <<>>
       /\ (s = 10 /\ t \in {50, 2}) => pure.value = <<>>
       /\ s < 5 => pure.value = <<>>

C21_Witness ==
  /\ pure.op = "verifyLengthSanity" /\ pure.applied
  /\ pure.args = <<Filled(10), Filled(60)>>
  /\ pure.value # <<>>
  /\ pure.value[1].severity = "warning"

\* The translation map of a response holds exactly its entries that are
\* not metadata, unchanged
StripsMetadata(response, translations) ==
  /\ DOMAIN translations =
       {k \in DOMAIN response :
          k \notin {"warnings", "savedKeys", "keysSavedCount", "namespaces",
                    "namespaceFiles", "namespaceFileNames", "skipped"}}
  /\ \A k \in DOMAIN translations : translations[k] = response[k]

\* C22 as stated: the translation map holds exactly the entries of the
\* response that are not metadata, unchanged, and the skipped info is the
\* response's skipped field, or {count: 0, keys: []} when the response has
\* none.
C22_SkippedFieldOrDefault ==
  (pure.op = "callTranslateAPI" /\ pure.applied) =>
    LET response == pure.args[1]
    IN /\ StripsMetadata(response, pure.value.translations)
       /\ pure.value.skippedInfo =
            IF "skipped" \in DOMAIN response THEN response["skipped"] ELSE NoSkippedInfo

\* C22 amended: the translation map holds exactly the entries of the
\* response that are not metadata, unchanged; the skipped info is the
\* response's skipped field when the response has one that is not null,
\* false, 0 or the empty string, and {count: 0, keys: []} otherwise.
C22_TruthySkippedFieldOrDefault ==
  (pure.op = "callTranslateAPI" /\ pure.applied) =>
    LET response == pure.args[1]
        falsy == {Null, Bool("f"), Num("0"), Str(<<>>)}
    IN /\ StripsMetadata(response, pure.value.translations)
       /\ pure.value.skippedInfo =
            IF "skipped" \in DOMAIN response /\ response["skipped"] \notin falsy
            THEN response["skipped"] ELSE NoSkippedInfo

C22_Witness ==
  /\ pure.op = "callTranslateAPI" /\ pure.applied
  /\ DOMAIN pure.args[1] = {"es", "warnings", "savedKeys", "skipped"}
  /\ pure.args[1]["skipped"] = Null
  /\ DOMAIN pure.value.translations = {"es"}
  /\ pure.value.skippedInfo = NoSkippedInfo

\* The phases of a run in their order; a failed run is over
PhaseOf(p) ==
  CASE p = "start" -> 0
    [] p \in {"file", "translate", "write", "prune"} -> 1
    [] p = "verify" -> 2
    [] p = "llm" -> 3
    [] p = "report" -> 4
    [] p = "sync" -> 5
    [] p = "commit" -> 6
    [] OTHER -> 7

\* The steps of one source file in their order
StepOf(p) == CASE p = "file" -> 0 [] p = "translate" -> 1 [] OTHER -> 2

\* C23: the phases of a run are strictly ordered with no backtracking:
\* the detect, translate and write steps of a source file are over before
\* those of the next begin, verification starts only after the last source
\* file was processed, reporting follows verification, and the commit and
\* push or the pull request happen at most once, last, and only if at least
\* one target file was written.
C23_PhasesInOrder ==
  [][/\ pc \notin {"done", "failed"}
     /\ PhaseOf(pc') >= PhaseOf(pc)
     /\ idx' \in {idx, idx + 1}
     /\ (PhaseOf(pc) = 1 /\ PhaseOf(pc') = 1 /\ idx' = idx) => StepOf(pc') > StepOf(pc) \/ pc' = pc
     /\ (PhaseOf(pc) = 1 /\ idx' = idx + 1) => pc \in {"file", "translate", "write", "prune"}
     /\ (requests' # requests /\ PhaseOf(pc) = 1) => pc = "translate"
     /\ merges' # merges => pc \in {"write", "prune"} /\ idx' = idx + 1
     /\ fs' # fs => merges' # merges
     /\ (PhaseOf(pc') \in 2..6 \/ pc' = "done") => idx' > Len(sourceFiles')
     /\ verified' # verified => pc = "verify"
     /\ llmIssues' # llmIssues => pc = "llm"
     /\ reported' # reported => pc = "report" /\ PhaseOf(pc') > 4
     /\ gitLog' # gitLog =>
          /\ pc = "commit" /\ gitLog = <<>> /\ pc' \in {"done", "failed"}
          /\ merges # <<>> /\ allFilesChanged # <<>>
          /\ Cardinality({i \in 1..Len(gitLog') : gitLog'[i] = "commit"}) <= 1
          /\ Cardinality({i \in 1..Len(gitLog') : gitLog'[i] = "push"}) <= 1
          /\ Cardinality({i \in 1..Len(gitLog') : gitLog'[i] = "pr"}) <= 1
    ]_vars

C23_Witness ==
  /\ pc = "done"
  /\ Len(sourceFiles) > 1
  /\ Len(merges) > 1
  /\ verified # <<>> /\ llmIssues # <<>> /\ reported # <<>>
  /\ Len(requests) > Len(sourceFiles) + 1
  /\ "commit" \in Range(gitLog)

\* The tree the remote returned for a language, as a tree or as JSON text
IncomingTree(m) == IF m.incoming.type = "json" THEN JSONparse(m.incoming) ELSE m.incoming

\* C24: in incremental mode, when the existing target file is readable
\* and parses, the content written for the language is exactly
\* removePaths(deepMerge(existing, incoming), deletedPaths).
C24_WrittenIsPrunedMerge ==
  \A i \in 1..Len(merges) :
    LET m == merges[i]
    IN (m.isIncremental /\ m.existing # NoText /\ CanParse(m.existing)
        /\ IsMapping(IncomingTree(m))) =>
         m.written = JSONstringify(removeKeys(deepMerge(JSONparse(m.existing), IncomingTree(m)),
                                              m.deletedKeys))

\* C25: in incremental mode, when the existing target file is missing or
\* does not parse at merge time, the run goes on without error and the
\* content written for the language is exactly the incoming translation,
\* not merged and not pruned.
C25_UnreadableTargetOverwritten ==
  \A i \in 1..Len(merges) :
    LET m == merges[i]
    IN (m.isIncremental /\ (m.existing = NoText \/ ~CanParse(m.existing))) =>
         /\ m.written = IF m.incoming.type = "obj" THEN JSONstringify(m.incoming)
                        ELSE m.incoming
         /\ m.outputFile \in DOMAIN fs
         /\ \E j \in 1..(idx - 1) : sourceFiles[j] = m.source
         /\ failure \notin {"ENOENT", "Failed to parse"}

C25_Witness ==
  /\ pc = "done"
  /\ \E i, j \in 1..Len(merges) :
       /\ merges[i].isIncremental /\ merges[i].existing = NoText
       /\ merges[j].isIncremental /\ merges[j].existing = GarbageText
       /\ merges[j].deletedKeys # {}
       /\ merges[j].incoming.type = "obj"
       /\ fs[merges[j].outputFile] = JSONstringify(merges[j].incoming)

\* The leaf maps of the prior revision and of the current tree of f
PriorLeaves(f) == flattenObject(JSONparse(git[f]), <<>>)

CurrentLeaves(f) == flattenObject(SourceTree(f), <<>>)

\* f is processed incrementally and its change set has deleted paths but
\* no added and no modified path
DeletionOnly(f) ==
  /\ cfg.incremental /\ IsJsonSource(f) /\ HasBaseline(f)
  /\ \A p \in DOMAIN CurrentLeaves(f) :
       p \in DOMAIN PriorLeaves(f) /\ PriorLeaves(f)[p] = CurrentLeaves(f)[p]
  /\ DOMAIN PriorLeaves(f) \ DOMAIN CurrentLeaves(f) # {}

\* C26: for a source file whose change set has deleted paths but no added
\* or modified path no translation call is made; every target file of a
\* requested language that exists and parses is rewritten as
\* removePaths(existing, deletedPaths); a target file that does not exist
\* is neither created nor counted as changed.
C26_DeletionOnlyPrunes ==
  \A j \in 1..Len(sourceFiles) :
    LET f == sourceFiles[j]
        deleted == DOMAIN PriorLeaves(f) \ DOMAIN CurrentLeaves(f)
    IN (j < idx /\ DeletionOnly(f)) =>
         /\ TranslationRequestsOf(f) = {}
         /\ \A lang \in Range(cfg.targetLanguages) :
              LET target == OutputFile(effectiveOutputDir(f), f, lang)
              IN IF target \notin DOMAIN fs0
                 THEN target \notin DOMAIN fs /\ target \notin Range(allFilesChanged)
                 ELSE IF CanParse(fs0[target])
                 THEN /\ fs[target] = JSONstringify(removeKeys(JSONparse(fs0[target]), deleted))
                      /\ target \in Range(allFilesChanged)
                 ELSE fs[target] = fs0[target] /\ target \notin Range(allFilesChanged)

C26_Witness ==
  /\ pc = "done"
  /\ \E j \in 1..Len(sourceFiles) :
       LET f == sourceFiles[j]
       IN /\ DeletionOnly(f)
          /\ \E l1, l2 \in Range(cfg.targetLanguages) :
               LET t1 == OutputFile(effectiveOutputDir(f), f, l1)
                   t2 == OutputFile(effectiveOutputDir(f), f, l2)
               IN /\ t1 \in DOMAIN fs0 /\ fs[t1] # fs0[t1]
                  /\ t2 \notin DOMAIN fs

\* The leaf map of the current tree of f restricted to the paths that are
\* new or whose value differs from the prior revision's
ChangedLeaves(f) ==
  LET old == PriorLeaves(f)
      new == CurrentLeaves(f)
  IN [p \in {q \in DOMAIN new : q \notin DOMAIN old \/ old[q] # new[q]} |-> new[p]]

\* The content of the translation request r is the subset tree of the
\* added and modified paths in incremental mode, the full tree otherwise
SendsExactly(r) ==
  (r.api \in TranslationApis /\ IsJsonSource(r.file)) =>
    IF cfg.incremental /\ HasBaseline(r.file)
    THEN /\ ChangedLeaves(r.file) # <<>>
         /\ IsMapping(r.content)
         /\ flattenObject(r.content, <<>>) = ChangedLeaves(r.file)
    ELSE r.content = SourceTree(r.file)

\* C27: in incremental mode with a parsed prior revision and at least one
\* added or modified path, the content sent for translation is the subset
\* tree of the current source whose leaf map is the source's leaf map
\* restricted to the added and modified paths: no unchanged and no
\* deleted path is sent and every added or modified leaf is sent with its
\* current value; in non-incremental mode the full source tree is sent.
C27_SendsChangedSubset ==
  [][\A i \in (Len(requests) + 1)..Len(requests') : SendsExactly(requests'[i])]_vars

C27_Witness ==
  /\ pc = "done"
  /\ cfg.incremental
  /\ \E i, j \in 1..Len(requests) :
       LET r == requests[i]
       IN /\ r.api = "translate" /\ IsJsonSource(r.file) /\ HasBaseline(r.file)
          /\ DOMAIN flattenObject(r.content, <<>>) # {}
          /\ DOMAIN flattenObject(r.content, <<>>) # DOMAIN CurrentLeaves(r.file)
          /\ requests[j].api = "translate" /\ ~HasBaseline(requests[j].file)
          /\ requests[j].content = SourceTree(requests[j].file)

\* C28: key parity of an incremental run: if before the run the leaf
\* paths of a target file are those of the prior revision of its source,
\* and the translation returned for the language a tree with exactly the
\* leaf paths that were sent, then after the run the leaf paths of the
\* target file are those of the current source, whatever changed between
\* the two revisions, a leaf turned into a mapping or a mapping into a
\* leaf included.
C28_KeyParity ==
  (pc = "done" /\ cfg.incremental) =>
    \A f \in Range(sourceFiles) :
      \A lang \in Range(cfg.targetLanguages) :
        LET target == OutputFile(effectiveOutputDir(f), f, lang)
        IN (/\ IsJsonSource(f) /\ HasBaseline(f)
            /\ target \in DOMAIN fs0 /\ CanParse(fs0[target])
            /\ DOMAIN LeafMap(fs0[target]) = DOMAIN PriorLeaves(f)
            /\ \A i \in 1..Len(merges) :
                 (merges[i].outputFile = target /\ merges[i].incoming # EmptyObject) =>
                   /\ merges[i].incoming.type = "obj"
                   /\ DOMAIN flattenObject(merges[i].incoming, <<>>)
                        = DOMAIN ChangedLeaves(f))
           => /\ CanParse(fs[target])
              /\ DOMAIN LeafMap(fs[target]) = DOMAIN CurrentLeaves(f)

\* The target files of the requested languages for the source files of
\* the run
RequestedTargets ==
  {OutputFile(effectiveOutputDir(f), f, lang) :
     f \in Range(sourceFiles), lang \in Range(cfg.targetLanguages)}

\* C29: every file written during a run is the target file of a requested
\* target language for a source file of the run: no file is written for a
\* language that was not requested, whatever keys the translation
\* response has.
C29_OnlyRequestedLanguagesWritten ==
  /\ \A i \in 1..Len(merges) :
       /\ merges[i].lang \in Range(cfg.targetLanguages)
       /\ merges[i].outputFile \in RequestedTargets
  /\ \A p \in DOMAIN fs : (p \notin DOMAIN fs0 \/ fs[p] # fs0[p]) => p \in RequestedTargets
  /\ Range(allFilesChanged) \subseteq RequestedTargets

\* C30: every result translateFile returns satisfies: if isIncremental is
\* false then deletedKeys is empty, and if translations is empty then
\* isIncremental is true and changedKeyCount is 0.
C30_ResultWellFormed ==
  result # NoResult =>
    /\ ~result.isIncremental => result.deletedKeys = {}
    /\ DOMAIN result.translations = {} =>
         (result.isIncremental /\ result.changedKeyCount = 0)
=============================================================================
